---- MODULE Spec2Model ----
(***************************************************************************)
(* A model of bevy_observed_utility: the action lifecycle state machine,   *)
(* the depth-first post-order traversal of the entity hierarchy            *)
(* (src/src/ecs.rs) and the scoring pass that is driven by it.             *)
(***************************************************************************)
EXTENDS Integers, Sequences, FiniteSets, TLC

VARIABLES
    \* ---- action lifecycle ----
    currentAction,  \* CurrentAction component: agent -> action identifier
    picker,         \* Picker component: agent -> [idle, picked]
    trace,          \* lifecycle events in the order they were dispatched
    lastOp,         \* the event the host triggered last (history)
    \* ---- hierarchy traversal ----
    children,       \* Children component: entity -> sequence of entities
    queue,          \* DFSPostTraversal.queue: sequence of <<depth, entity>>
    visited,        \* DFSPostTraversalIter.visited
    current_depth,  \* DFSPostTraversalIter.current_depth
    iterRoot,       \* root the live iterator was created with (0: none yet)
    out,            \* entities the live iterator has returned so far
    nones,          \* number of None results of the live iterator (capped)
    leftover,       \* entries that were in the queue when the live iterator was created
    inNext,         \* a call of next() is inside its loop (calls explored pass by pass)
    filtered,       \* entities that fail the query filter F of DFSPostTraversal
    \* ---- scoring ----
    comps,          \* entity -> its Score and combinator components
    score,          \* value of the Score component of an entity
    notified,       \* entities OnScore was triggered for in the last pass, in order
    lastTarget,     \* target of the last RunScoring (-1: none, 0: all)
    rng,            \* RandomScore.rng: entity -> state of its generator
    observers,      \* the order in which the observers of OnScore run
    writes,         \* Score writes of the last pass: [on, entity, by], in order
    triggered,      \* entity of an OnScore that was triggered on its own (0: none)
    resources,      \* the ..ObserverSpawned resources in the world, by combinator kind
    queued,         \* Once commands that are queued and not applied yet, by kind
    \* ---- picking and per-action state ----
    strategy,       \* agent -> its picking strategy component
    pickedEvents,   \* OnPicked events of the last RunPicking, in order
    attached,       \* agent -> the per-action components it holds
    \* ---- ancestor lookup ----
    alive,          \* the entities that exist
    childOf,        \* ChildOf component: entity -> its parent (0: none)
    hasT,           \* the entities that hold the component T
    cache,          \* AncestorQuery.cache: start -> cached ancestor (0: no entry)
    got             \* the last lookup since the hierarchy changed: its start, its result
                    \* (0: Err) and the cache entry it met (history)

lifeVars == <<currentAction, picker, trace, lastOp>>
travVars ==
    <<children, queue, visited, current_depth, iterRoot, out, nones, leftover, inNext, filtered>>
scoreVars == <<comps, score, notified, lastTarget, rng, observers, writes, triggered,
               resources, queued>>
pickVars == <<strategy, pickedEvents, attached>>
ancVars == <<alive, childOf, hasT, cache, got>>
vars == <<lifeVars, travVars, scoreVars, pickVars, ancVars>>

----------------------------------------------------------------------------
\* Bounds of the model.

\* longest lifecycle event trace that is explored
MaxTrace == 6
\* number of entities in the hierarchy that is traversed
MaxNodes == 5
\* calls of next() that are explored after the iterator is exhausted
MaxNones == 2
\* number of entities in the hierarchy that is scored
ScoreNodes == 3
\* number of scorer entities a picker can be configured with
MaxScorers == 2
\* number of entities in the hierarchy of the ancestor lookups
AncNodes == 3
\* number of entities in the parent/child structure that may hold a cycle
CycNodes == 3
\* longest traversal buffer that is explored pass by pass; the buffer of a
\* traversal without a cycle holds each entity at most once and stays below it
MaxQueue == 5
\* number of entities that combinator components are added to one by one
OnceNodes == 2
\* entities of a hierarchy that is traversed with a query filter
FilterNodes == 4

----------------------------------------------------------------------------
\* Action lifecycle: events (src/src/event.rs) and their handlers.

Agents == {"actor"}
IdleAction == "idle"
ActionIds == {"idle", "action1", "action2"}
None == "None"

\* ActionEndReason
Completed == "Completed"
Cancelled == "Cancelled"
ActionEndReason == {Completed, Cancelled}

\* RequestAction::picked(entity)
RequestAction_picked(entity) == [entity |-> entity, action |-> None]

\* RequestAction::specific(entity, action)
RequestAction_specific(entity, action) == [entity |-> entity, action |-> action]

\* OnActionInitiated { entity, action }
OnActionInitiated(entity, action) ==
    [ev |-> "OnActionInitiated", entity |-> entity, action |-> action, reason |-> None]

\* a plausible slip in the constructor below: the wrong reason
OnActionEnded_completed_WrongReason(entity, action) ==
    [ev |-> "OnActionEnded", entity |-> entity, action |-> action, reason |-> Cancelled]

\* OnActionEnded::completed(entity, action)
OnActionEnded_completed(entity, action) ==
    [ev |-> "OnActionEnded", entity |-> entity, action |-> action, reason |-> Completed]

\* a plausible slip in the constructor below: the wrong reason
OnActionEnded_cancelled_WrongReason(entity, action) ==
    [ev |-> "OnActionEnded", entity |-> entity, action |-> action, reason |-> Completed]

\* OnActionEnded::cancelled(entity, action)
OnActionEnded_cancelled(entity, action) ==
    [ev |-> "OnActionEnded", entity |-> entity, action |-> action, reason |-> Cancelled]

\* An entry of the trace: the event, how it was triggered ("lifecycle", or the
\* constructor a direct trigger used), and CurrentAction of its entity when it
\* was dispatched (cur) and when its handlers had run (after).
Dispatched(event, via, cur, after) ==
    [ev |-> event.ev, entity |-> event.entity, action |-> event.action,
     reason |-> event.reason, via |-> via, cur |-> cur, after |-> after]

\* a handler that forgets to reset CurrentAction
OnActionEndedHandler_NoReset(cur, idle, event) == cur

\* The lifecycle's OnActionEnded handler: the new CurrentAction.
OnActionEndedHandler(cur, idle, event) ==
    IF event.reason = Completed /\ event.action = cur THEN idle ELSE cur

\* a resolution that falls back to the idle action
ResolveAction_PickedIsIdle(request, pick) ==
    IF request.action = None THEN pick.idle ELSE request.action

\* The action a RequestAction resolves to.
ResolveAction(request, pick) ==
    IF request.action = None THEN pick.picked ELSE request.action

\* a handler that initiates even when the action is already current
RequestActionEvents_Always(entity, cur, resolved, idle) ==
    LET ended == OnActionEnded_cancelled(entity, cur)
        cur1  == OnActionEndedHandler(cur, idle, ended)
    IN  << Dispatched(ended, "lifecycle", cur, cur1),
           Dispatched(OnActionInitiated(entity, resolved), "lifecycle", resolved, resolved) >>

\* The events the RequestAction handler dispatches, in order.
RequestActionEvents(entity, cur, resolved, idle) ==
    IF resolved # cur
    THEN LET ended == OnActionEnded_cancelled(entity, cur)
             cur1  == OnActionEndedHandler(cur, idle, ended)
         IN  << Dispatched(ended, "lifecycle", cur, cur1),
                Dispatched(OnActionInitiated(entity, resolved), "lifecycle", resolved, resolved) >>
    ELSE << >>

\* the action kinds the host registered the two helper handlers for
HelperKinds == ActionIds \ {IdleAction}

\* on_action_initiated_insert_default::<A>: insert (or reset) the component A
on_action_initiated_insert_default(held, event) ==
    IF event.ev = "OnActionInitiated" /\ event.action \in HelperKinds
    THEN held \cup {event.action}
    ELSE held

\* a helper that cleans up after completed actions only
on_action_ended_remove_CompletedOnly(held, event) ==
    IF event.ev = "OnActionEnded" /\ event.action \in HelperKinds /\ event.reason = Completed
    THEN held \ {event.action}
    ELSE held

\* on_action_ended_remove::<A>: remove the component A, whatever the reason
on_action_ended_remove(held, event) ==
    IF event.ev = "OnActionEnded" /\ event.action \in HelperKinds
    THEN held \ {event.action}
    ELSE held

\* The per-action components of an agent after the helper handlers have seen
\* the events, in the order they were dispatched, and the commands are flushed.
RECURSIVE RunHelpers(_, _, _)
RunHelpers(held, events, k) ==
    IF k > Len(events) THEN held
    ELSE RunHelpers(on_action_ended_remove(
                        on_action_initiated_insert_default(held, events[k]), events[k]),
                    events, k + 1)

\* a handler that writes the CurrentAction of every agent
HandleRequestAction_EveryAgent(w, request) ==
    LET entity   == request.entity
        cur      == w.currentAction[entity]
        idle     == picker[entity].idle
        resolved == ResolveAction(request, picker[entity])
        events   == RequestActionEvents(entity, cur, resolved, idle)
    IN  [currentAction |-> [a \in DOMAIN w.currentAction |->
                               IF events = << >> THEN w.currentAction[a] ELSE resolved],
         trace         |-> w.trace \o events,
         attached      |-> [w.attached EXCEPT ![entity] = RunHelpers(@, events, 1)]]

\* What the lifecycle handlers work on: the CurrentAction components, the
\* events dispatched so far and the per-action components.
LifeWorld == [currentAction |-> currentAction, trace |-> trace, attached |-> attached]

\* The RequestAction handler with everything it triggers: it reads
\* CurrentAction when it runs, dispatches its events to their handlers and
\* writes CurrentAction before it returns.
HandleRequestAction(w, request) ==
    LET entity   == request.entity
        cur      == w.currentAction[entity]
        idle     == picker[entity].idle
        resolved == ResolveAction(request, picker[entity])
        events   == RequestActionEvents(entity, cur, resolved, idle)
    IN  [currentAction |-> [w.currentAction EXCEPT ![entity] =
                               IF events = << >> THEN cur ELSE resolved],
         trace         |-> w.trace \o events,
         attached      |-> [w.attached EXCEPT ![entity] = RunHelpers(@, events, 1)]]

\* The host triggers RequestAction.
RequestAction(request) ==
    LET entity   == request.entity
        cur      == currentAction[entity]
        resolved == ResolveAction(request, picker[entity])
    IN  /\ Len(trace) + 2 <= MaxTrace
        /\ \E w \in {HandleRequestAction(LifeWorld, request)} :
              /\ trace' = w.trace
              /\ currentAction' = w.currentAction
              /\ attached' = w.attached
        /\ lastOp' = [op |-> "RequestAction", entity |-> entity, action |-> resolved,
                      via |-> None, prev |-> cur, plen |-> Len(trace)]
        /\ UNCHANGED <<picker, strategy, pickedEvents, travVars, scoreVars, ancVars>>

\* a flush in which every request is handled against the world as it was when
\* the flush began
RECURSIVE ApplyRequests_SameSnapshot(_, _, _)
ApplyRequests_SameSnapshot(w, requests, k) ==
    IF k > Len(requests) THEN w
    ELSE LET h == HandleRequestAction([LifeWorld EXCEPT !.trace = w.trace], requests[k])
         IN  ApplyRequests_SameSnapshot(h, requests, k + 1)

\* The queued RequestAction triggers from position k on, applied one after
\* the other: each handler has returned before the next trigger is applied.
RECURSIVE ApplyRequests(_, _, _)
ApplyRequests(w, requests, k) ==
    IF k > Len(requests) THEN w
    ELSE ApplyRequests(HandleRequestAction(w, requests[k]), requests, k + 1)

\* commands.trigger(RequestAction ..); commands.trigger(RequestAction ..);
\* world.flush(): the host queues several requests and flushes them together.
Flush_Requests(requests) ==
    /\ Len(trace) + 2 * Len(requests) <= MaxTrace
    /\ \E w \in {ApplyRequests(LifeWorld, requests, 1)} :
          /\ trace' = w.trace
          /\ currentAction' = w.currentAction
          /\ attached' = w.attached
    /\ lastOp' = [op |-> "Flush", entity |-> requests[1].entity,
                  action |-> ResolveAction(requests[Len(requests)], picker[requests[Len(requests)].entity]),
                  via |-> None, prev |-> currentAction[requests[1].entity],
                  plen |-> Len(trace)]
    /\ UNCHANGED <<picker, strategy, pickedEvents, travVars, scoreVars, ancVars>>

\* The host (action-specific logic) triggers OnActionEnded directly, built by
\* one of the two constructors.
TriggerOnActionEnded(entity, action, via) ==
    LET event == IF via = "completed" THEN OnActionEnded_completed(entity, action)
                                      ELSE OnActionEnded_cancelled(entity, action)
        cur   == currentAction[entity]
        after == OnActionEndedHandler(cur, picker[entity].idle, event)
    IN  /\ Len(trace) + 1 <= MaxTrace
        /\ trace' = Append(trace, Dispatched(event, via, cur, after))
        /\ currentAction' = [currentAction EXCEPT ![entity] = after]
        /\ lastOp' = [op |-> "OnActionEnded", entity |-> entity, action |-> action,
                      via |-> via, prev |-> cur, plen |-> Len(trace)]
        /\ attached' = [attached EXCEPT ![entity] =
                            RunHelpers(@, <<Dispatched(event, via, cur, after)>>, 1)]
        /\ UNCHANGED <<picker, strategy, pickedEvents, travVars, scoreVars, ancVars>>

\* no entity is scored
ScoreIdle ==
    /\ comps = << >>
    /\ score = << >>
    /\ notified = << >>
    /\ lastTarget = -1
    /\ rng = << >>
    /\ observers = << >>
    /\ writes = << >>
    /\ triggered = 0
    /\ resources = {}
    /\ queued = << >>

\* an agent without picking strategy component
NoStrategy == [kind |-> "None", threshold |-> <<0, 1>>]

\* no agent has a picking strategy, nothing was picked, no per-action
\* component is attached
PickIdle ==
    /\ strategy = [a \in Agents |-> NoStrategy]
    /\ pickedEvents = << >>
    /\ attached = [a \in Agents |-> {}]

\* no lookup was made
NoLookup == [op |-> "none", start |-> 0, found |-> 0, was |-> 0]

\* no AncestorQuery is in use
AncIdle ==
    /\ alive = {}
    /\ childOf = << >>
    /\ hasT = {}
    /\ cache = << >>
    /\ got = NoLookup

NoOp == [op |-> "none", entity |-> None, action |-> None, via |-> None,
         prev |-> None, plen |-> 0]

TravIdle ==
    /\ children = [n \in 1..MaxNodes |-> << >>]
    /\ queue = << >>
    /\ visited = 0
    /\ current_depth = 0
    /\ iterRoot = 0
    /\ out = << >>
    /\ nones = 0
    /\ leftover = 0
    /\ inNext = FALSE
    /\ filtered = {}

\* Agents start idle; Picker.picked is whatever an earlier picking pass left.
InitLife ==
    /\ currentAction = [a \in Agents |-> IdleAction]
    /\ picker \in [Agents -> [idle : {IdleAction}, picked : ActionIds]]
    /\ trace = << >>
    /\ lastOp = NoOp
    /\ PickIdle
    /\ AncIdle
    /\ TravIdle
    /\ ScoreIdle

NextLife ==
    \/ \E e \in Agents : RequestAction(RequestAction_picked(e))
    \/ \E e \in Agents, a \in ActionIds : RequestAction(RequestAction_specific(e, a))
    \/ \E e \in Agents, a \in ActionIds, via \in {"completed", "cancelled"} :
          TriggerOnActionEnded(e, a, via)
    \/ \E e \in Agents, a, b \in ActionIds :
          Flush_Requests(<<RequestAction_specific(e, a), RequestAction_specific(e, b)>>)

SpecLife == InitLife /\ [][NextLife]_vars

----------------------------------------------------------------------------
\* Hierarchy traversal: DFSPostTraversal (src/src/ecs.rs).

Entities == 1..MaxNodes

MinOf(S) == CHOOSE x \in S : \A y \in S : x <= y
MaxOf(S) == CHOOSE x \in S : \A y \in S : x >= y

\* the entities of a sequence
Range(seq) == {seq[i] : i \in 1..Len(seq)}

\* the members of S in ascending order of rank
RECURSIVE SortBy(_, _)
SortBy(S, rank) ==
    IF S = {} THEN << >>
    ELSE LET first == CHOOSE x \in S : \A y \in S : rank[x] <= rank[y]
         IN  <<first>> \o SortBy(S \ {first}, rank)

\* The hierarchies: every entity has at most one parent (0: none), a parent
\* was spawned before its children, and the Children component lists the
\* children of an entity in any order.
ForestsOf(E) ==
    { [p \in E |-> SortBy({n \in E : par[n] = p}, rank)] :
        par \in {f \in [E -> {0} \cup E] : \A n \in E : f[n] < n},
        rank \in Permutations(E) }

\* Query<&Children>::get(entity) is Ok: the entity has a Children component.
HasChildren(entity) == children[entity] # << >>

\* a query that ignores its filter
Children_get_NoFilter(entity) == HasChildren(entity)

\* Query<&Children, F>::get(entity) is Ok: the entity has a Children component
\* and satisfies the filter F.
Children_get(entity) == HasChildren(entity) /\ entity \notin filtered

\* VecDeque::insert(index, value), index counted from 0
Insert(q, index, value) ==
    SubSeq(q, 1, index) \o <<value>> \o SubSeq(q, index + 1, Len(q))

\* VecDeque::remove(index), index counted from 0: the queue without the entry
Remove(q, index) ==
    SubSeq(q, 1, index) \o SubSeq(q, index + 2, Len(q))

\* a splice that puts every child right behind the parent: reversed siblings
RECURSIVE InsertChildren_AllAtFront(_, _, _, _, _)
InsertChildren_AllAtFront(q, i, depth, kids, j) ==
    IF j >= Len(kids) THEN q
    ELSE InsertChildren_AllAtFront(Insert(q, i + 1, <<depth + 1, kids[j + 1]>>), i, depth, kids, j + 1)

\* for (j, child) in children.enumerate() { queue.insert(i + j + 1, (depth + 1, child)) }
RECURSIVE InsertChildren(_, _, _, _, _)
InsertChildren(q, i, depth, kids, j) ==
    IF j >= Len(kids) THEN q
    ELSE InsertChildren(Insert(q, i + j + 1, <<depth + 1, kids[j + 1]>>), i, depth, kids, j + 1)

\* a boundary test that also stops at a sibling
NotChildNorSibling_OrEqual(cd, depth) == cd >= depth

\* a boundary test that stops only two levels up
NotChildNorSibling_TwoLevels(cd, depth) == cd > depth + 1

\* "This node is not a child nor a sibling": current_depth > depth
NotChildNorSibling(cd, depth) == cd > depth

\* a loop that counts an entry as visited only when it has children
RECURSIVE Expand_CountsExpandedOnly(_, _, _)
Expand_CountsExpandedOnly(q, v, cd) ==
    IF v >= Len(q)
    THEN [queue |-> q, visited |-> v, current_depth |-> cd]
    ELSE LET depth  == q[v + 1][1]
             entity == q[v + 1][2]
         IN  IF NotChildNorSibling(cd, depth)
             THEN [queue |-> q, visited |-> v, current_depth |-> cd]
             ELSE IF ~Children_get(entity)
                  THEN [queue |-> q, visited |-> v, current_depth |-> depth]
                  ELSE Expand_CountsExpandedOnly(
                           InsertChildren(q, v, depth, children[entity], 0), v + 1, depth)

\* The loop of next(): expands the first branch; the iterator fields after it.
RECURSIVE Expand(_, _, _)
Expand(q, v, cd) ==
    IF v >= Len(q)
    THEN [queue |-> q, visited |-> v, current_depth |-> cd]
    ELSE LET depth  == q[v + 1][1]
             entity == q[v + 1][2]
         IN  IF NotChildNorSibling(cd, depth)
             THEN [queue |-> q, visited |-> v, current_depth |-> cd]
             ELSE IF ~Children_get(entity)
                  THEN [queue |-> q, visited |-> v + 1, current_depth |-> depth]
                  ELSE Expand(InsertChildren(q, v, depth, children[entity], 0), v + 1, depth)

\* an emit step that takes the front of the queue
Emit_Front(q, v) ==
    IF v = 0 \/ v > Len(q)
    THEN [queue |-> q, visited |-> v, current_depth |-> 0, item |-> 0]
    ELSE [queue |-> Remove(q, 0), visited |-> v - 1,
          current_depth |-> q[1][1], item |-> q[1][2]]

\* an emit step that forgets  self.visited -= 1
Emit_KeepsVisited(q, v) ==
    IF v = 0 \/ v > Len(q)
    THEN [queue |-> q, visited |-> v, current_depth |-> 0, item |-> 0]
    ELSE [queue |-> Remove(q, v - 1), visited |-> v,
          current_depth |-> q[v][1], item |-> q[v][2]]

\* let (depth, entity) = queue.remove(visited - 1)?; visited -= 1;
\* current_depth = depth; Some(entity).  item 0 stands for None: remove()
\* returns None for an index outside the queue (visited - 1 wraps at 0).
Emit(q, v) ==
    IF v = 0 \/ v > Len(q)
    THEN [queue |-> q, visited |-> v, current_depth |-> 0, item |-> 0]
    ELSE [queue |-> Remove(q, v - 1), visited |-> v - 1,
          current_depth |-> q[v][1], item |-> q[v][2]]

\* DFSPostTraversalIter::next: the iterator fields after the call, and the item
NextItem(q, v, cd) ==
    IF q = << >>
    THEN [queue |-> q, visited |-> v, current_depth |-> cd, item |-> 0]
    ELSE LET x == Expand(q, v, cd)
             e == Emit(x.queue, x.visited)
         IN  IF e.item = 0
             THEN [queue |-> x.queue, visited |-> x.visited,
                   current_depth |-> x.current_depth, item |-> 0]
             ELSE e

\* a constructor that reseeds the buffer without clearing it
DFSPostTraversalIter_new_NoClear(q, root) ==
    [queue |-> Append(q, <<0, root>>), visited |-> 0, current_depth |-> 0]

\* DFSPostTraversalIter::new: queue.clear(); queue.push_back((0, root))
DFSPostTraversalIter_new(q, root) ==
    [queue |-> <<<<0, root>>>>, visited |-> 0, current_depth |-> 0]

\* the items of an iterator consumed until its first None
RECURSIVE Drain(_, _, _, _)
Drain(q, v, cd, fuel) ==
    LET r == NextItem(q, v, cd)
    IN  IF r.item = 0 \/ fuel = 0 THEN << >>
        ELSE <<r.item>> \o Drain(r.queue, r.visited, r.current_depth, fuel - 1)

\* for entity in DFSPostTraversal::iter(root), over an empty buffer
FreshRun(root) ==
    LET it == DFSPostTraversalIter_new(<< >>, root)
    IN  Drain(it.queue, it.visited, it.current_depth, Cardinality(DOMAIN children) + 1)

\* The hierarchy as a relation.
ChildSet(e) == Range(children[e])

\* the strict descendants of an entity
RECURSIVE Descendants(_)
Descendants(e) == UNION {{c} \cup Descendants(c) : c \in ChildSet(e)}

Subtree(e) == {e} \cup Descendants(e)

\* depth of the hierarchy below an entity
RECURSIVE Height(_)
Height(e) == IF ChildSet(e) = {} THEN 0 ELSE 1 + MaxOf({Height(c) : c \in ChildSet(e)})

\* DFSPostTraversal::iter(root): a new iterator over the reused buffer; an
\* iterator that was live is dropped wherever it stood.
Iter(root) ==
    LET it == DFSPostTraversalIter_new(queue, root)
    IN  /\ queue' = it.queue
        /\ visited' = it.visited
        /\ current_depth' = it.current_depth
        /\ iterRoot' = root
        /\ out' = << >>
        /\ nones' = 0
        /\ leftover' = Len(queue)
        /\ inNext' = FALSE
        /\ UNCHANGED <<children, filtered, lifeVars, scoreVars, pickVars, ancVars>>

\* One call of next() on the live iterator.
NextCall ==
    /\ iterRoot # 0
    /\ nones < MaxNones
    /\ LET r == NextItem(queue, visited, current_depth)
       IN  /\ queue' = r.queue
           /\ visited' = r.visited
           /\ current_depth' = r.current_depth
           /\ out' = IF r.item = 0 THEN out ELSE Append(out, r.item)
           /\ nones' = IF r.item = 0 THEN nones + 1 ELSE nones
    /\ UNCHANGED <<children, iterRoot, leftover, inNext, filtered, lifeVars, scoreVars, pickVars, ancVars>>

LifeIdle ==
    /\ currentAction = [a \in Agents |-> IdleAction]
    /\ picker = [a \in Agents |-> [idle |-> IdleAction, picked |-> IdleAction]]
    /\ trace = << >>
    /\ lastOp = NoOp
    /\ PickIdle
    /\ AncIdle

InitTrav ==
    /\ children \in ForestsOf(Entities)
    /\ queue = << >>
    /\ visited = 0
    /\ current_depth = 0
    /\ iterRoot = 0
    /\ out = << >>
    /\ nones = 0
    /\ leftover = 0
    /\ inNext = FALSE
    /\ filtered = {}
    /\ LifeIdle
    /\ ScoreIdle

NextTrav ==
    \/ \E root \in Entities : Iter(root)
    \/ NextCall

SpecTrav == InitTrav /\ [][NextTrav]_vars

----------------------------------------------------------------------------
\* Properties of the traversal.

IsPrefix(s, t) == Len(s) <= Len(t) /\ s = SubSeq(t, 1, Len(s))

\* C6: the iterator returns every descendant of an entity strictly before
\* the entity itself, and the root last.
C6_DescendantsBeforeParent ==
    iterRoot # 0 =>
        /\ \A j \in 1..Len(out) :
              /\ \A d \in Descendants(out[j]) : \E i \in 1..(j - 1) : out[i] = d
              /\ out[j] = iterRoot => j = Len(out)
        /\ nones > 0 => (out # << >> /\ out[Len(out)] = iterRoot)

\* a finished traversal of a root with two children, one of them a parent
C6_Witness ==
    /\ iterRoot # 0
    /\ nones > 0
    /\ Len(children[iterRoot]) >= 2
    /\ \E c \in ChildSet(iterRoot) : children[c] # << >>
    /\ Len(out) = Cardinality(Subtree(iterRoot))

\* C7: the iterator returns each entity of the root's subtree exactly once and
\* nothing else; when all have been returned the buffer is empty, and every
\* later call returns None.
C7_EachOnceThenNone ==
    iterRoot # 0 =>
        /\ \A i, j \in 1..Len(out) : out[i] = out[j] => i = j
        /\ Range(out) \subseteq Subtree(iterRoot)
        /\ Len(out) = Cardinality(Subtree(iterRoot)) => queue = << >>
        /\ nones > 0 => (Range(out) = Subtree(iterRoot) /\ queue = << >>)

\* next() was called again after the first None of a traversal of 4 or more
\* entities on three levels
C7_Witness ==
    /\ iterRoot # 0
    /\ nones >= 2
    /\ Len(out) >= 4
    /\ Height(iterRoot) >= 2

\* C8: whatever ran before on the reused buffer, the iterator returns what an
\* iterator over a fresh buffer returns for the same root and hierarchy.
C8_SameSequenceEveryCall ==
    iterRoot # 0 =>
        /\ IsPrefix(out, FreshRun(iterRoot))
        /\ nones > 0 => out = FreshRun(iterRoot)

\* the iterator was created over the entries an abandoned iterator left behind
C8_Witness ==
    /\ iterRoot # 0
    /\ leftover >= 2
    /\ nones > 0
    /\ Len(out) >= 3

----------------------------------------------------------------------------
\* Properties of the action lifecycle.

IsInitiated(e, agent) == e.ev = "OnActionInitiated" /\ e.entity = agent
IsEnded(e, agent) == e.ev = "OnActionEnded" /\ e.entity = agent

\* positions of the OnActionInitiated events of an agent
InitiatedAt(agent) == {i \in 1..Len(trace) : IsInitiated(trace[i], agent)}

\* Every OnActionInitiated(agent, a) is followed by exactly one
\* OnActionEnded(agent, a, _) before the next OnActionInitiated of the agent
\* (at most one as long as no next OnActionInitiated has been dispatched).
Paired(agent) ==
    \A i \in InitiatedAt(agent) :
        LET later == {j \in InitiatedAt(agent) : j > i}
            stop  == IF later = {} THEN Len(trace) + 1 ELSE MinOf(later)
            ends  == {k \in (i + 1)..(stop - 1) :
                         IsEnded(trace[k], agent) /\ trace[k].action = trace[i].action}
        IN  IF later = {} THEN Cardinality(ends) <= 1 ELSE Cardinality(ends) = 1

\* A directly triggered OnActionEnded that cannot unpair the trace: it names
\* another action than the one most recently initiated for its agent, or it is
\* an OnActionEnded::completed for the agent's current, non-idle action.
DirectIsPaired(k) ==
    LET e      == trace[k]
        before == {i \in InitiatedAt(e.entity) : i < k}
    IN  \/ before = {}
        \/ trace[MaxOf(before)].action # e.action
        \/ e.via = "completed" /\ e.action = e.cur /\ e.action # picker[e.entity].idle

DirectAt == {k \in 1..Len(trace) : trace[k].via # "lifecycle"}

\* C1: a RequestAction whose resolved action a differs from CurrentAction p
\* dispatches exactly OnActionEnded(agent, p, Cancelled) while CurrentAction is
\* still p, then OnActionInitiated(agent, a) with CurrentAction already a, in
\* that order, and nothing else.
C1_CancelThenInitiate ==
    (lastOp.op = "RequestAction" /\ lastOp.action # lastOp.prev) =>
        /\ Len(trace) = lastOp.plen + 2
        /\ trace[lastOp.plen + 1] =
              [ev |-> "OnActionEnded", entity |-> lastOp.entity, action |-> lastOp.prev,
               reason |-> Cancelled, via |-> "lifecycle",
               cur |-> lastOp.prev, after |-> lastOp.prev]
        /\ trace[lastOp.plen + 2] =
              [ev |-> "OnActionInitiated", entity |-> lastOp.entity, action |-> lastOp.action,
               reason |-> None, via |-> "lifecycle",
               cur |-> lastOp.action, after |-> lastOp.action]
        /\ currentAction[lastOp.entity] = lastOp.action

\* a second reassignment, away from a non-idle action
C1_Witness ==
    /\ lastOp.op = "RequestAction"
    /\ lastOp.action # lastOp.prev
    /\ lastOp.prev # IdleAction
    /\ lastOp.plen >= 2

\* C2 as stated: in every trace of RequestAction and directly triggered
\* OnActionEnded events, each OnActionInitiated(agent, a) is followed by exactly
\* one OnActionEnded(agent, a, _) before the agent's next OnActionInitiated.
C2_PairedInEveryTrace == \A agent \in Agents : Paired(agent)

\* C2 amended: the pairing holds in every trace whose directly triggered
\* OnActionEnded events each name an action other than the one most recently
\* initiated, or are OnActionEnded::completed for the current non-idle action.
C2_PairedWhenDirectEndsFit ==
    (\A k \in DirectAt : DirectIsPaired(k)) => \A agent \in Agents : Paired(agent)

\* an action was completed directly and the agent went on to another action
C2_Witness ==
    /\ \A k \in DirectAt : DirectIsPaired(k)
    /\ \E k \in DirectAt :
          /\ trace[k].via = "completed" /\ trace[k].action = trace[k].cur
          /\ \E i, j \in InitiatedAt(trace[k].entity) : i < k /\ k < j

\* the action most recently initiated for an agent is still running: no
\* OnActionEnded accepted by Ends names it since
RunningAction(agent, Ends(_)) ==
    LET inits == InitiatedAt(agent)
    IN  IF inits = {} THEN {}
        ELSE LET i == MaxOf(inits)
             IN  IF \E k \in (i + 1)..Len(trace) :
                        /\ IsEnded(trace[k], agent)
                        /\ trace[k].action = trace[i].action
                        /\ Ends(trace[k])
                 THEN {} ELSE {trace[i].action}

AnyReason(e) == TRUE
CompletedReason(e) == e.reason = Completed

\* C3 as stated: CurrentAction is the idle action or the most recently
\* initiated action for which no OnActionEnded has been dispatched since.
C3_IdleOrNotYetEnded ==
    \A agent \in Agents :
        currentAction[agent] \in {picker[agent].idle} \cup RunningAction(agent, AnyReason)

\* C3 amended: CurrentAction is the idle action or the most recently initiated
\* action for which no OnActionEnded with reason Completed has been dispatched
\* since.
C3_IdleOrNotYetCompleted ==
    \A agent \in Agents :
        currentAction[agent] \in {picker[agent].idle} \cup RunningAction(agent, CompletedReason)

\* an action is running although OnActionEnded was triggered directly since it
\* was initiated, and an earlier direct completion had reset the agent to idle
C3_Witness ==
    \E agent \in Agents :
        /\ currentAction[agent] # picker[agent].idle
        /\ \E k \in DirectAt : trace[k].entity = agent /\ k > MaxOf(InitiatedAt(agent) \cup {0})
        /\ \E k \in DirectAt : trace[k].entity = agent /\ trace[k].after = picker[agent].idle
                                /\ trace[k].cur # picker[agent].idle

\* C4: a RequestAction whose resolved action equals CurrentAction leaves
\* CurrentAction alone and dispatches no lifecycle event.
C4_SameActionIsNoOp ==
    (lastOp.op = "RequestAction" /\ lastOp.action = lastOp.prev) =>
        /\ currentAction[lastOp.entity] = lastOp.prev
        /\ Len(trace) = lastOp.plen

\* the running, non-idle action was requested again
C4_Witness ==
    /\ lastOp.op = "RequestAction"
    /\ lastOp.action = lastOp.prev
    /\ lastOp.prev # IdleAction
    /\ lastOp.plen >= 2

\* C5: an OnActionEnded resets CurrentAction to the idle action when its reason
\* is Completed and its action is the current one, and leaves CurrentAction
\* unchanged otherwise; OnActionEnded::completed carries the reason Completed
\* and OnActionEnded::cancelled the reason Cancelled.
C5_EndedResetsOnlyCompletedCurrent ==
    /\ \A k \in 1..Len(trace) :
          LET e == trace[k]
          IN  /\ e.ev = "OnActionEnded" =>
                    e.after = IF e.reason = Completed /\ e.action = e.cur
                              THEN picker[e.entity].idle ELSE e.cur
              /\ e.via = "completed" => e.reason = Completed
              /\ e.via = "cancelled" => e.reason = Cancelled
    /\ lastOp.op = "OnActionEnded" =>
          currentAction[lastOp.entity] = trace[Len(trace)].after

\* each case has happened: a completion of the current action, a completion
\* of another action, and a direct cancellation of the current action
C5_Witness ==
    /\ \E k \in DirectAt : /\ trace[k].reason = Completed /\ trace[k].action = trace[k].cur
                           /\ trace[k].cur # IdleAction /\ trace[k].after = IdleAction
    /\ \E k \in DirectAt : /\ trace[k].reason = Completed /\ trace[k].action # trace[k].cur
                           /\ trace[k].after = trace[k].cur
    /\ \E k \in DirectAt : /\ trace[k].reason = Cancelled /\ trace[k].action = trace[k].cur
                           /\ trace[k].cur # IdleAction /\ trace[k].after = trace[k].cur

----------------------------------------------------------------------------
\* Scoring: Score, the combinators (src/src/scoring/*.rs) and RunScoring.

\* A Score is a real number; the model keeps it exact, as a fraction
\* <<numerator, denominator>> in lowest terms.
RECURSIVE GCD(_, _)
GCD(a, b) == IF b = 0 THEN a ELSE GCD(b, a % b)

Abs(n) == IF n < 0 THEN 0 - n ELSE n

Rat(n, d) == LET g == GCD(Abs(n), d) IN <<n \div g, d \div g>>

Zero == Rat(0, 1)
One == Rat(1, 1)
Plus(x, y) == Rat(x[1] * y[2] + y[1] * x[2], x[2] * y[2])
Minus(x, y) == Rat(x[1] * y[2] - y[1] * x[2], x[2] * y[2])
Times(x, y) == Rat(x[1] * y[1], x[2] * y[2])
Less(x, y) == x[1] * y[2] < y[1] * x[2]

ScoredEntities == 1..ScoreNodes

\* Score::set: the value is stored as it is; the sums of Sum and AllOrNothing
\* may exceed 1.
Score_set(value) == value

\* A combinator component with its settings.
Component(kind, threshold, value, compensation) ==
    [kind |-> kind, threshold |-> threshold, value |-> value,
     use_compensation |-> compensation]

\* FixedScore::new(value)
FixedScore_new(value) == Component("FixedScore", Zero, value, FALSE)
\* Sum::new(threshold); Sum::default() has the threshold 0
Sum_new(threshold) == Component("Sum", threshold, Zero, FALSE)
\* Product::new(threshold)
Product_new(threshold) == Component("Product", threshold, Zero, FALSE)
\* Product::with_compensation
Product_with_compensation(self, compensation) ==
    [self EXCEPT !.use_compensation = compensation]
\* AllOrNothing::new(threshold)
AllOrNothing_new(threshold) == Component("AllOrNothing", threshold, Zero, FALSE)
\* Winning::new(threshold)
Winning_new(threshold) == Component("Winning", threshold, Zero, FALSE)
\* RandomScore::new(rng): the range is ScoreRange::FULL, from 0 to 1
RandomScore_new == Component("RandomScore", Zero, Zero, FALSE)

\* The components of an entity that scoring reads: whether it has a Score, and
\* its combinator components (one of a type at most).
Components(hasScore, parts) == [hasScore |-> hasScore, parts |-> parts]

\* an entity without Score, such as an actor
Plain == Components(FALSE, {})
\* a scorer that no combinator of the library scores: (Score, Marker)
Marker == Components(TRUE, {})
\* (Score, combinator)
Scorer(part) == Components(TRUE, {part})

\* Query<&T>::get(entity)
Has(entity, kind) == \E p \in comps[entity].parts : p.kind = kind
Get(entity, kind) == CHOOSE p \in comps[entity].parts : p.kind = kind

\* The injected generator of a RandomScore: the values random_range draws
\* from the range, in order; the last one keeps coming.
RngStream == <<Zero, Rat(1, 2)>>
Rng_value(g) == RngStream[g + 1]
Rng_next(g) == IF g + 1 < Len(RngStream) THEN g + 1 ELSE g

\* scores.iter_many(children): the scores of the children that have a Score,
\* in the order of Children
RECURSIVE ChildScores(_, _, _)
ChildScores(kids, sc, k) ==
    IF k > Len(kids) THEN << >>
    ELSE (IF comps[kids[k]].hasScore THEN <<sc[kids[k]]>> ELSE << >>)
         \o ChildScores(kids, sc, k + 1)

\* Sum::observer: the value written
RECURSIVE SumOf(_, _)
SumOf(xs, k) == IF k > Len(xs) THEN Zero ELSE Plus(xs[k], SumOf(xs, k + 1))

\* a sum that has to exceed the threshold
SumValue_ThresholdInclusive(xs, threshold) ==
    LET sum == SumOf(xs, 1)
    IN  IF Less(sum, threshold) \/ sum = threshold THEN Zero ELSE sum

SumValue(xs, threshold) ==
    LET sum == SumOf(xs, 1)
    IN  IF Less(sum, threshold) THEN Zero ELSE sum

\* Product::observer: the value written
RECURSIVE ProductOf(_, _)
ProductOf(xs, k) == IF k > Len(xs) THEN One ELSE Times(xs[k], ProductOf(xs, k + 1))

\* the threshold compared before the compensation
ProductValue_ThresholdFirst(xs, threshold, use_compensation) ==
    LET product    == ProductOf(xs, 1)
        num_scores == Len(xs)
        cut        == IF Less(product, threshold) THEN Zero ELSE product
    IN  IF use_compensation /\ num_scores > 0
        THEN LET mod_factor == Minus(One, Rat(1, num_scores))
                 makeup     == Times(Minus(One, cut), mod_factor)
             IN  Plus(cut, Times(makeup, cut))
        ELSE cut

\* what 1. / 0. turns the product into
NaN == <<0, 0>>

\* the compensation without the test of num_scores
ProductValue_DividesByZero(xs, threshold, use_compensation) ==
    LET product    == ProductOf(xs, 1)
        num_scores == Len(xs)
        compensated ==
            IF ~use_compensation THEN product
            ELSE IF num_scores = 0 THEN NaN
            ELSE LET mod_factor == Minus(One, Rat(1, num_scores))
                     makeup     == Times(Minus(One, product), mod_factor)
                 IN  Plus(product, Times(makeup, product))
    IN  IF compensated # NaN /\ Less(compensated, threshold) THEN Zero ELSE compensated

ProductValue(xs, threshold, use_compensation) ==
    LET product    == ProductOf(xs, 1)
        num_scores == Len(xs)
        compensated ==
            IF use_compensation /\ num_scores > 0
            THEN LET mod_factor == Minus(One, Rat(1, num_scores))
                     makeup     == Times(Minus(One, product), mod_factor)
                 IN  Plus(product, Times(makeup, product))
            ELSE product
    IN  IF Less(compensated, threshold) THEN Zero ELSE compensated

\* AllOrNothing::observer: the value written
\* (first: a loop that breaks without the reset of the sum)
RECURSIVE AllOrNothingLoop_KeepsPartialSum(_, _, _, _)
AllOrNothingLoop_KeepsPartialSum(xs, threshold, k, sum) ==
    IF k > Len(xs) THEN sum
    ELSE IF Less(xs[k], threshold) THEN sum
         ELSE AllOrNothingLoop_KeepsPartialSum(xs, threshold, k + 1, Plus(sum, xs[k]))

RECURSIVE AllOrNothingLoop(_, _, _, _)
AllOrNothingLoop(xs, threshold, k, sum) ==
    IF k > Len(xs) THEN sum
    ELSE IF Less(xs[k], threshold) THEN Zero
         ELSE AllOrNothingLoop(xs, threshold, k + 1, Plus(sum, xs[k]))

AllOrNothingValue(xs, threshold) == AllOrNothingLoop(xs, threshold, 1, Zero)

\* Winning::observer: the value written
\* (first: a loop that takes every child score for the maximum)
RECURSIVE WinningLoop_LastWins(_, _, _)
WinningLoop_LastWins(xs, k, max) ==
    IF k > Len(xs) THEN max
    ELSE WinningLoop_LastWins(xs, k + 1, xs[k])

RECURSIVE WinningLoop(_, _, _)
WinningLoop(xs, k, max) ==
    IF k > Len(xs) THEN max
    ELSE WinningLoop(xs, k + 1, IF Less(max, xs[k]) THEN xs[k] ELSE max)

WinningValue(xs, threshold) ==
    LET max == WinningLoop(xs, 1, Zero)
    IN  IF Less(max, threshold) THEN Zero ELSE max

\* What the observers work on: the Score of every entity, the generator of
\* every RandomScore, and (history) the writes of Score so far.
World == [score |-> score, rng |-> rng, writes |-> << >>]

\* the observer of the given combinator, run for OnScore(on), stores a value in
\* the Score of an entity
Write(w, on, entity, kind, value) ==
    [w EXCEPT !.score[entity] = value,
              !.writes = Append(@, [on |-> on, entity |-> entity, by |-> kind])]

\* a FixedScore observer that leaves entities with children to the others
FixedScore_observer_WithoutChildren(entity, w) ==
    IF ~(comps[entity].hasScore /\ Has(entity, "FixedScore")) \/ HasChildren(entity) THEN w
    ELSE Write(w, entity, entity, "FixedScore", Get(entity, "FixedScore").value)

\* FixedScore::observer: needs (Score, FixedScore) on the entity
FixedScore_observer(entity, w) ==
    IF ~(comps[entity].hasScore /\ Has(entity, "FixedScore")) THEN w
    ELSE Write(w, entity, entity, "FixedScore", Get(entity, "FixedScore").value)

\* a Sum observer that scores every entity that has Children
Sum_observer_AnyParent(entity, w) ==
    IF ~HasChildren(entity) THEN w
    ELSE LET threshold == IF Has(entity, "Sum") THEN Get(entity, "Sum").threshold ELSE Zero
             sum == SumValue(ChildScores(children[entity], w.score, 1), threshold)
         IN  IF ~comps[entity].hasScore THEN w
             ELSE Write(w, entity, entity, "Sum", Score_set(sum))

\* a Sum observer that scores an entity without Children as a sum of nothing
Sum_observer_EmptySum(entity, w) ==
    IF ~Has(entity, "Sum") THEN w
    ELSE LET sum == SumValue(ChildScores(children[entity], w.score, 1),
                             Get(entity, "Sum").threshold)
         IN  IF ~comps[entity].hasScore THEN w
             ELSE Write(w, entity, entity, "Sum", Score_set(sum))

\* Sum::observer: needs (Children, Sum) on the entity, then its Score
Sum_observer(entity, w) ==
    IF ~(HasChildren(entity) /\ Has(entity, "Sum")) THEN w
    ELSE LET sum == SumValue(ChildScores(children[entity], w.score, 1),
                             Get(entity, "Sum").threshold)
         IN  IF ~comps[entity].hasScore THEN w
             ELSE Write(w, entity, entity, "Sum", Score_set(sum))

\* Product::observer: needs (Children, Product) on the entity, then its Score
Product_observer(entity, w) ==
    IF ~(HasChildren(entity) /\ Has(entity, "Product")) THEN w
    ELSE LET settings == Get(entity, "Product")
             product == ProductValue(ChildScores(children[entity], w.score, 1),
                                     settings.threshold, settings.use_compensation)
         IN  IF ~comps[entity].hasScore THEN w
             ELSE Write(w, entity, entity, "Product", Score_set(product))

\* AllOrNothing::observer: needs (Children, AllOrNothing), then its Score
AllOrNothing_observer(entity, w) ==
    IF ~(HasChildren(entity) /\ Has(entity, "AllOrNothing")) THEN w
    ELSE LET sum == AllOrNothingValue(ChildScores(children[entity], w.score, 1),
                                      Get(entity, "AllOrNothing").threshold)
         IN  IF ~comps[entity].hasScore THEN w
             ELSE Write(w, entity, entity, "AllOrNothing", Score_set(sum))

\* a Winning that lets the old score of the entity compete with its children
Winning_observer_OwnScoreCompetes(entity, w) ==
    IF ~(HasChildren(entity) /\ Has(entity, "Winning")) THEN w
    ELSE LET max == WinningValue(<<w.score[entity]>>
                                    \o ChildScores(children[entity], w.score, 1),
                                 Get(entity, "Winning").threshold)
         IN  IF ~comps[entity].hasScore THEN w
             ELSE Write(w, entity, entity, "Winning", Score_set(max))

\* Winning::observer: needs (Children, Winning) on the entity, then its Score
Winning_observer(entity, w) ==
    IF ~(HasChildren(entity) /\ Has(entity, "Winning")) THEN w
    ELSE LET max == WinningValue(ChildScores(children[entity], w.score, 1),
                                 Get(entity, "Winning").threshold)
         IN  IF ~comps[entity].hasScore THEN w
             ELSE Write(w, entity, entity, "Winning", Score_set(max))

\* RandomScore::observer: needs (Score, RandomScore) on the entity; the draw
\* moves the generator on
RandomScore_observer(entity, w) ==
    IF ~(comps[entity].hasScore /\ Has(entity, "RandomScore")) THEN w
    ELSE LET value == Rng_value(w.rng[entity])
         IN  Write([w EXCEPT !.rng[entity] = Rng_next(@)], entity, entity, "RandomScore",
                   Score_set(value))

\* the observers of OnScore, in the order of the files of src/src/scoring
ObserverKinds ==
    <<"AllOrNothing", "FixedScore", "Product", "RandomScore", "Sum", "Winning">>

Observe(kind, entity, w) ==
    CASE kind = "FixedScore"   -> FixedScore_observer(entity, w)
      [] kind = "Sum"          -> Sum_observer(entity, w)
      [] kind = "Product"      -> Product_observer(entity, w)
      [] kind = "AllOrNothing" -> AllOrNothing_observer(entity, w)
      [] kind = "Winning"      -> Winning_observer(entity, w)
      [] kind = "RandomScore"  -> RandomScore_observer(entity, w)

\* trigger(OnScore { entity }): every observer of OnScore runs, one after the
\* other
RECURSIVE Trigger(_, _, _)
Trigger(entity, w, k) ==
    IF k > Len(observers) THEN w
    ELSE Trigger(entity, Observe(observers[k], entity, w), k + 1)

\* the scores after OnScore(entity) over the scores sc
OnScore(entity, sc) == Trigger(entity, [World EXCEPT !.score = sc], 1).score

\* OnScore triggered for the entities of order, one by one
RECURSIVE ScoreInOrder(_, _, _)
ScoreInOrder(order, w, k) ==
    IF k > Len(order) THEN w
    ELSE ScoreInOrder(order, Trigger(order[k], w, 1), k + 1)

\* the entity whose Children lists e (0: none)
ParentOf(e) ==
    IF \E p \in DOMAIN children : e \in ChildSet(p)
    THEN CHOOSE p \in DOMAIN children : e \in ChildSet(p)
    ELSE 0

\* roots that take every parentless scorer and nothing else
ScoringRoots_WithoutParent ==
    {e \in DOMAIN comps : comps[e].hasScore /\ ParentOf(e) = 0}

\* The roots of the scoring subtrees: the entities with a Score none of whose
\* ancestors has a Score.
ScoringRoots ==
    {e \in DOMAIN comps :
        /\ comps[e].hasScore
        /\ ~\E a \in DOMAIN comps : comps[a].hasScore /\ e \in Descendants(a)}

\* the traversals of the given roots, one after the other
RECURSIVE Traversals(_, _)
Traversals(roots, k) ==
    IF k > Len(roots) THEN << >>
    ELSE FreshRun(roots[k]) \o Traversals(roots, k + 1)

\* the entities RunScoring triggers OnScore for, in order: the traversal
\* rooted at the target, or (target 0: RunScoring::all()) the traversals of all
\* scoring roots
ScoringOrder(target) ==
    LET roots == IF target = 0
                 THEN SortBy(ScoringRoots, [e \in DOMAIN comps |-> e])
                 ELSE <<target>>
    IN  Traversals(roots, 1)

\* RunScoring: OnScore for every entity of the scoring order
RunScoring(target) ==
    \E order \in {ScoringOrder(target)} :
    \E w \in {ScoreInOrder(order, World, 1)} :
        /\ notified' = order
        /\ score' = w.score
        /\ rng' = w.rng
        /\ writes' = w.writes
        /\ lastTarget' = target
        /\ triggered' = 0
        /\ UNCHANGED <<comps, observers, resources, queued, children, queue, visited,
                       current_depth, iterRoot, out, nones, leftover, inNext, filtered, lifeVars,
                       pickVars, ancVars>>

\* commands.trigger(OnScore { entity }) on its own, without a RunScoring
TriggerOnScore(entity) ==
    \E w \in {Trigger(entity, World, 1)} :
        /\ notified' = <<entity>>
        /\ score' = w.score
        /\ rng' = w.rng
        /\ writes' = w.writes
        /\ lastTarget' = -1
        /\ triggered' = entity
        /\ UNCHANGED <<comps, observers, resources, queued, children, queue, visited,
                       current_depth, iterRoot, out, nones, leftover, inNext, filtered, lifeVars,
                       pickVars, ancVars>>

\* what the entities of the scored hierarchy can carry
ComponentChoices ==
    { Plain, Marker, Scorer(FixedScore_new(Rat(7, 10))), Scorer(Sum_new(Zero)),
      Scorer(Product_new(Rat(1, 10))), Scorer(AllOrNothing_new(Rat(1, 2))),
      Scorer(Winning_new(Rat(1, 2))) }

\* A combinator over children returns early on an entity without Children,
\* whatever its kind: Sum stands for all of them there.
ChildlessChoices ==
    { Plain, Marker, Scorer(FixedScore_new(Rat(7, 10))), Scorer(Sum_new(Zero)) }

\* the traversal buffer is not in use
NoTraversal ==
    /\ queue = << >>
    /\ visited = 0
    /\ current_depth = 0
    /\ iterRoot = 0
    /\ out = << >>
    /\ nones = 0
    /\ leftover = 0
    /\ inNext = FALSE
    /\ filtered = {}

\* every combinator kind has been added before: its Once command was applied,
\* its resource is in the world and none is queued
AllSpawned ==
    /\ resources = Range(ObserverKinds)
    /\ queued = << >>

\* no scoring has happened
NotScored ==
    /\ notified = << >>
    /\ lastTarget = -1
    /\ writes = << >>
    /\ triggered = 0

\* Any hierarchy of ScoreNodes entities with any of the components; the
\* scores are Score::default() or what earlier scoring left. Every entity
\* has one combinator at most, so the order of the observers does not matter.
InitScore ==
    /\ children \in ForestsOf(ScoredEntities)
    /\ comps \in [ScoredEntities -> ComponentChoices]
    /\ \A e \in ScoredEntities : children[e] = << >> => comps[e] \in ChildlessChoices
    /\ \E old \in {Zero, Rat(9, 10)} : score = [e \in ScoredEntities |-> old]
    /\ rng = [e \in ScoredEntities |-> 0]
    /\ observers = ObserverKinds
    /\ NotScored
    /\ AllSpawned
    /\ NoTraversal
    /\ LifeIdle

NextScore ==
    \/ \E target \in ScoredEntities : RunScoring(target)
    \/ RunScoring(0)

SpecScore == InitScore /\ [][NextScore]_vars

\* The observers are spawned when their component is first added and are kept
\* in a map; the order they run in is not fixed.
Reverse(seq) == [i \in 1..Len(seq) |-> seq[Len(seq) + 1 - i]]

ObserverOrders == {ObserverKinds, Reverse(ObserverKinds)}

\* The combinators one by one: a scorer (entity 1) with the settings of the
\* examples, or with a threshold that its children can meet exactly, and with
\* any children, in any order: entities without Score, scorers of the
\* application with any score, and FixedScore scorers not yet scored.
Scorers ==
    { Marker,
      Scorer(FixedScore_new(Rat(7, 10))),
      Scorer(Sum_new(Rat(1, 10))), Scorer(Sum_new(Rat(7, 10))),
      Scorer(Product_new(Rat(1, 10))), Scorer(Product_new(Rat(21, 100))),
      Scorer(Product_with_compensation(Product_new(Rat(1, 10)), TRUE)),
      Scorer(AllOrNothing_new(Rat(1, 2))), Scorer(AllOrNothing_new(Rat(7, 10))),
      Scorer(Winning_new(Rat(1, 2))), Scorer(Winning_new(Rat(7, 10))),
      Components(TRUE, {Sum_new(Rat(1, 10)), FixedScore_new(Rat(3, 10))}) }

\* the scores that Score::new, a scorer of the application or earlier scoring
\* left on an entity
Scores == {Rat(3, 10), Rat(4, 10), Rat(7, 10)}

\* the sequences without repetition of entities of S
Arrangements(S) ==
    UNION {{SortBy(T, rank) : rank \in {f \in [T -> 1..Cardinality(T)] :
                                          \A x, y \in T : x # y => f[x] # f[y]}}
           : T \in SUBSET S}

InitCombinators ==
    /\ \E kids \in Arrangements(ScoredEntities \ {1}) :
          children = [e \in ScoredEntities |-> IF e = 1 THEN kids ELSE << >>]
    /\ comps \in [ScoredEntities -> Scorers \cup {Plain}]
    /\ comps[1] # Plain
    /\ \A e \in ScoredEntities \ {1} :
          comps[e] \in {Plain, Marker, Scorer(FixedScore_new(Rat(7, 10)))}
    /\ \A e \in ScoredEntities \ ({1} \cup ChildSet(1)) : comps[e] = Marker
    /\ score \in [ScoredEntities -> Scores \cup {Zero, Rat(1, 2)}]
    /\ score[1] \in {Zero, Rat(1, 2)}
    /\ \A e \in ScoredEntities \ {1} :
          score[e] \in IF comps[e] = Marker /\ e \in ChildSet(1) THEN Scores ELSE {Zero}
    /\ rng = [e \in ScoredEntities |-> 0]
    /\ observers \in IF Cardinality(comps[1].parts) > 1
                     THEN ObserverOrders ELSE {ObserverKinds}
    /\ NotScored
    /\ AllSpawned
    /\ NoTraversal
    /\ LifeIdle

NextCombinators == \E entity \in ScoredEntities : TriggerOnScore(entity)

SpecCombinators == InitCombinators /\ [][NextCombinators]_vars

\* Scoring again: any hierarchy of scorers that includes RandomScore, scored
\* by one pass after the other.
RescoredChoices ==
    { Marker, Scorer(FixedScore_new(Rat(7, 10))), Scorer(Sum_new(Zero)),
      Scorer(RandomScore_new) }

\* On an entity without Children the combinators over children return early.
RescoredLeafChoices ==
    { Marker, Scorer(FixedScore_new(Rat(7, 10))), Scorer(RandomScore_new) }

InitRescoring ==
    /\ children \in ForestsOf(ScoredEntities)
    /\ comps \in [ScoredEntities -> RescoredChoices]
    /\ \A e \in ScoredEntities : children[e] = << >> => comps[e] \in RescoredLeafChoices
    /\ score = [e \in ScoredEntities |-> Rat(9, 10)]
    /\ rng = [e \in ScoredEntities |-> 0]
    /\ observers = ObserverKinds
    /\ NotScored
    /\ AllSpawned
    /\ NoTraversal
    /\ LifeIdle

NextRescoring ==
    \/ \E target \in ScoredEntities : RunScoring(target)
    \/ RunScoring(0)

SpecRescoring == InitRescoring /\ [][NextRescoring]_vars

----------------------------------------------------------------------------
\* Picking: Picker, the strategies FirstToScore and Highest, and RunPicking
\* (spec 3 and 4.4).

\* Picker::new(idle): nothing is configured, the idle action is picked
Picker_new(idle) == [idle |-> idle, picked |-> idle, scorers |-> << >>]

\* Picker::with(scorer, action): the pairs keep their insertion order, the
\* first registration of a scorer wins
Picker_with(self, scorer, action) ==
    IF \E i \in 1..Len(self.scorers) : self.scorers[i].scorer = scorer
    THEN self
    ELSE [self EXCEPT !.scorers = Append(@, [scorer |-> scorer, action |-> action])]

\* FirstToScore::new(threshold)
FirstToScore_new(threshold) == [kind |-> "FirstToScore", threshold |-> threshold]

\* Highest
Highest == [kind |-> "Highest", threshold |-> Zero]

\* a scan that wants the score to exceed the threshold
RECURSIVE FirstToScore_pick_Strict(_, _, _, _, _)
FirstToScore_pick_Strict(pairs, sc, threshold, idle, k) ==
    IF k > Len(pairs) THEN idle
    ELSE IF Less(threshold, sc[pairs[k].scorer]) THEN pairs[k].action
    ELSE FirstToScore_pick_Strict(pairs, sc, threshold, idle, k + 1)

\* FirstToScore: the action of the first pair, from pair k on, whose scorer
\* has a score >= threshold; the idle action if there is none
RECURSIVE FirstToScore_pick(_, _, _, _, _)
FirstToScore_pick(pairs, sc, threshold, idle, k) ==
    IF k > Len(pairs) THEN idle
    ELSE IF ~Less(sc[pairs[k].scorer], threshold) THEN pairs[k].action
    ELSE FirstToScore_pick(pairs, sc, threshold, idle, k + 1)

\* a maximum that a later pair with the same score takes over
RECURSIVE Highest_best_LastWins(_, _, _, _)
Highest_best_LastWins(pairs, sc, k, best) ==
    IF k > Len(pairs) THEN best
    ELSE Highest_best_LastWins(pairs, sc, k + 1,
             IF ~Less(sc[pairs[k].scorer], sc[pairs[best].scorer]) THEN k ELSE best)

\* Highest: the position of the pair with the maximum score among best and
\* the pairs from k on; a later pair has to exceed the earlier ones
RECURSIVE Highest_best(_, _, _, _)
Highest_best(pairs, sc, k, best) ==
    IF k > Len(pairs) THEN best
    ELSE Highest_best(pairs, sc, k + 1,
             IF Less(sc[pairs[best].scorer], sc[pairs[k].scorer]) THEN k ELSE best)

\* a Highest that picks no action when no pair is configured
Highest_pick_NothingForEmpty(pairs, sc, idle) ==
    IF pairs = << >> THEN None ELSE pairs[Highest_best(pairs, sc, 1, 1)].action

\* Highest: the action of the pair with the maximum score, without any floor;
\* the idle action if no pair is configured
Highest_pick(pairs, sc, idle) ==
    IF pairs = << >> THEN idle ELSE pairs[Highest_best(pairs, sc, 1, 1)].action

\* OnPick(agent): what the strategy of the agent picks over the scores sc
OnPick(pick, strat, sc) ==
    IF strat.kind = "FirstToScore"
    THEN FirstToScore_pick(pick.scorers, sc, strat.threshold, pick.idle, 1)
    ELSE Highest_pick(pick.scorers, sc, pick.idle)

\* OnPicked { entity, action }
OnPicked(entity, action) == [ev |-> "OnPicked", entity |-> entity, action |-> action]

\* a pass that reports the pick and leaves Picker.picked alone
RECURSIVE PickInOrder_NoWrite(_, _, _)
PickInOrder_NoWrite(agents, w, k) ==
    IF k > Len(agents) THEN w
    ELSE LET agent == agents[k]
         IN  IF strategy[agent] = NoStrategy THEN PickInOrder_NoWrite(agents, w, k + 1)
             ELSE LET action == OnPick(w.picker[agent], strategy[agent], w.score)
                  IN  PickInOrder_NoWrite(agents,
                          [picker |-> w.picker,
                           events |-> Append(w.events, OnPicked(agent, action)),
                           score  |-> w.score],
                          k + 1)

\* The RunPicking handler over the agents from position k on, in a world w
\* of Picker components, OnPicked events and the Score values the strategies
\* read: an agent with a strategy gets the result written to Picker.picked and
\* an OnPicked; an agent without one is passed over.
RECURSIVE PickInOrder(_, _, _)
PickInOrder(agents, w, k) ==
    IF k > Len(agents) THEN w
    ELSE LET agent == agents[k]
         IN  IF strategy[agent] = NoStrategy THEN PickInOrder(agents, w, k + 1)
             ELSE LET action == OnPick(w.picker[agent], strategy[agent], w.score)
                  IN  PickInOrder(agents,
                          [picker |-> [w.picker EXCEPT ![agent].picked = action],
                           events |-> Append(w.events, OnPicked(agent, action)),
                           score  |-> w.score],
                          k + 1)

\* the agents of the picking model, in the order RunPicking::all() takes them
PickAgents == <<"actor", "other">>

\* RunPicking::entity(target), or RunPicking::all() (target None)
RunPicking(target) ==
    \E agents \in {IF target = None THEN PickAgents ELSE <<target>>} :
    \E w \in {PickInOrder(agents, [picker |-> picker, events |-> << >>, score |-> score], 1)} :
        /\ picker' = w.picker
        /\ pickedEvents' = w.events
        /\ UNCHANGED <<currentAction, trace, lastOp, strategy, attached, travVars, scoreVars,
                       ancVars>>

\* a flush that applies the queued commands last in, first out
Flush_ScoringThenPicking_PickingFirst ==
    \E order \in {ScoringOrder(0)} :
    \E p \in {PickInOrder(PickAgents, [picker |-> picker, events |-> << >>, score |-> score], 1)} :
    \E s \in {ScoreInOrder(order, World, 1)} :
        /\ notified' = order
        /\ score' = s.score
        /\ rng' = s.rng
        /\ writes' = s.writes
        /\ lastTarget' = 0
        /\ triggered' = 0
        /\ picker' = p.picker
        /\ pickedEvents' = p.events
        /\ UNCHANGED <<comps, observers, resources, queued, currentAction, trace, lastOp,
                       strategy, attached, travVars, ancVars>>

\* commands.trigger(RunScoring::all()); commands.trigger(RunPicking::all());
\* world.flush(): the queued commands are applied in the order they were
\* queued, each trigger with all its observers before the next command.
Flush_ScoringThenPicking ==
    \E order \in {ScoringOrder(0)} :
    \E s \in {ScoreInOrder(order, World, 1)} :
    \E p \in {PickInOrder(PickAgents, [picker |-> picker, events |-> << >>, score |-> s.score], 1)} :
        /\ notified' = order
        /\ score' = s.score
        /\ rng' = s.rng
        /\ writes' = s.writes
        /\ lastTarget' = 0
        /\ triggered' = 0
        /\ picker' = p.picker
        /\ pickedEvents' = p.events
        /\ UNCHANGED <<comps, observers, resources, queued, currentAction, trace, lastOp,
                       strategy, attached, travVars, ancVars>>

\* the scorer entities of the picking model
PickScorers == 1..MaxScorers

\* the values their FixedScore components give them
PickScores == {Rat(3, 10), Rat(1, 2), Rat(8, 10)}

\* the registrations .with(scorer, action) a host can make, in order
Registrations ==
    UNION { [1..n -> PickScorers \X (ActionIds \ {IdleAction})] : n \in 0..MaxScorers }

\* Picker::new(idle).with(..).with(..): the picker after the registrations
RECURSIVE Registered(_, _, _)
Registered(self, regs, k) ==
    IF k > Len(regs) THEN self
    ELSE Registered(Picker_with(self, regs[k][1], regs[k][2]), regs, k + 1)

\* An actor with any picker over the scorers and any strategy or none, next
\* to a Highest agent that has no scorer configured; the scorers are FixedScore entities
\* without hierarchy, not scored yet.
InitPick ==
    /\ children = [e \in PickScorers |-> << >>]
    /\ comps \in [PickScorers -> {Scorer(FixedScore_new(v)) : v \in PickScores}]
    /\ score = [e \in PickScorers |-> Zero]
    /\ rng = [e \in PickScorers |-> 0]
    /\ observers = ObserverKinds
    /\ NotScored
    /\ AllSpawned
    /\ NoTraversal
    /\ \E regs \in Registrations :
          picker = [a \in Range(PickAgents) |->
                       IF a = "actor" THEN Registered(Picker_new(IdleAction), regs, 1)
                                      ELSE Picker_new(IdleAction)]
    /\ \E sa \in {NoStrategy, FirstToScore_new(Rat(1, 2)), Highest} :
          strategy = [a \in Range(PickAgents) |-> IF a = "actor" THEN sa ELSE Highest]
    /\ currentAction = [a \in Range(PickAgents) |-> IdleAction]
    /\ trace = << >>
    /\ lastOp = NoOp
    /\ pickedEvents = << >>
    /\ attached = [a \in Range(PickAgents) |-> {}]
    /\ AncIdle

\* The host scores, picks and acts, in any order.
NextPick ==
    \/ RunScoring(0)
    \/ \E agent \in Range(PickAgents) : RunPicking(agent)
    \/ RunPicking(None)
    \/ Flush_ScoringThenPicking
    \/ \E agent \in Range(PickAgents) : RequestAction(RequestAction_picked(agent))

SpecPick == InitPick /\ [][NextPick]_vars

----------------------------------------------------------------------------
\* Ancestor lookup: AncestorQuery<T> (src/src/ecs.rs) over a hierarchy the
\* host changes between the lookups.

AncEntities == 1..AncNodes

\* the entity and those above it on the chain of ChildOf
RECURSIVE ChainOf(_, _)
ChainOf(entity, up) ==
    IF entity = 0 \/ entity \notin alive THEN << >>
    ELSE <<entity>> \o ChainOf(up[entity], up)

\* the entity and everything below it
AncSubtree(entity) ==
    {d \in alive : \E i \in 1..Len(ChainOf(d, childOf)) : ChainOf(d, childOf)[i] = entity}

\* Query::contains / Has<T>: the entity exists and holds T
Contains(entity) == entity \in alive /\ entity \in hasT

\* a crawl that settles for the topmost entity when no entity holds T
RECURSIVE AncestorQuery_find_TopWhenNone(_)
AncestorQuery_find_TopWhenNone(current) ==
    IF current \notin alive THEN 0
    ELSE IF current \in hasT THEN current
    ELSE IF childOf[current] # 0 THEN AncestorQuery_find_TopWhenNone(childOf[current])
    ELSE current

\* AncestorQuery::find, from current on: the entity found (0: Err). check.get
\* fails for an entity that does not exist; the crawl ends at an entity
\* without ChildOf.
RECURSIVE AncestorQuery_find(_)
AncestorQuery_find(current) ==
    IF current \notin alive THEN 0
    ELSE IF current \in hasT THEN current
    ELSE IF childOf[current] # 0 THEN AncestorQuery_find(childOf[current])
    ELSE 0

\* a lookup that trusts the cache without looking at the cached entity
AncestorQuery_lookup_NoValidation(c, start) ==
    IF c[start] # 0
    THEN [found |-> c[start], cache |-> c]
    ELSE LET found == AncestorQuery_find(start)
         IN  [found |-> found,
              cache |-> IF found # 0 THEN [c EXCEPT ![start] = found] ELSE c]

\* The body that get and get_mut share: a cache entry whose entity still
\* matches the fetch query is returned; any other entry is removed and the
\* hierarchy is crawled, and find inserts what it found.
AncestorQuery_lookup(c, start) ==
    IF c[start] # 0 /\ Contains(c[start])
    THEN [found |-> c[start], cache |-> c]
    ELSE LET evicted == [c EXCEPT ![start] = 0]
             found   == AncestorQuery_find(start)
         IN  [found |-> found,
              cache |-> IF found # 0 THEN [evicted EXCEPT ![start] = found] ELSE evicted]

\* AncestorQuery::get(start)
AncestorQuery_get(start) ==
    \E r \in {AncestorQuery_lookup(cache, start)} :
        /\ cache' = r.cache
        /\ got' = [op |-> "get", start |-> start, found |-> r.found, was |-> cache[start]]
        /\ UNCHANGED <<alive, childOf, hasT, lifeVars, travVars, scoreVars, pickVars>>

\* AncestorQuery::get_mut(start)
AncestorQuery_get_mut(start) ==
    \E r \in {AncestorQuery_lookup(cache, start)} :
        /\ cache' = r.cache
        /\ got' = [op |-> "get_mut", start |-> start, found |-> r.found,
                   was |-> cache[start]]
        /\ UNCHANGED <<alive, childOf, hasT, lifeVars, travVars, scoreVars, pickVars>>

\* AncestorQuery::clear_cache()
AncestorQuery_clear_cache ==
    /\ cache' = [e \in DOMAIN cache |-> 0]
    /\ got' = NoLookup
    /\ UNCHANGED <<alive, childOf, hasT, lifeVars, travVars, scoreVars, pickVars>>

\* The host re-parents an entity (parent 0: removes its ChildOf); the
\* hierarchy stays a forest.
SetParent(entity, parent) ==
    /\ entity \in alive
    /\ parent = 0 \/ (parent \in alive /\ parent \notin AncSubtree(entity))
    /\ childOf[entity] # parent
    /\ childOf' = [childOf EXCEPT ![entity] = parent]
    /\ got' = NoLookup
    /\ UNCHANGED <<alive, hasT, cache, lifeVars, travVars, scoreVars, pickVars>>

\* The host attaches T to an entity.
InsertT(entity) ==
    /\ entity \in alive \ hasT
    /\ hasT' = hasT \cup {entity}
    /\ got' = NoLookup
    /\ UNCHANGED <<alive, childOf, cache, lifeVars, travVars, scoreVars, pickVars>>

\* The host detaches T from an entity.
RemoveT(entity) ==
    /\ entity \in hasT
    /\ hasT' = hasT \ {entity}
    /\ got' = NoLookup
    /\ UNCHANGED <<alive, childOf, cache, lifeVars, travVars, scoreVars, pickVars>>

\* The host despawns an entity: it goes with its descendants and their
\* components; the cache of the query is not told.
Despawn(entity) ==
    /\ entity \in alive
    /\ alive' = alive \ AncSubtree(entity)
    /\ hasT' = hasT \ AncSubtree(entity)
    /\ childOf' = [e \in DOMAIN childOf |-> IF e \in AncSubtree(entity) THEN 0 ELSE childOf[e]]
    /\ got' = NoLookup
    /\ UNCHANGED <<cache, lifeVars, travVars, scoreVars, pickVars>>

\* the hierarchies of the entities: every chain of ChildOf ends
AncForests ==
    {up \in [AncEntities -> {0} \cup AncEntities] :
        \A e \in AncEntities :
            \E order \in Permutations(AncEntities) :
                \A x \in AncEntities : up[x] # 0 => order[up[x]] < order[x]}

\* Any hierarchy with T on any of its entities, and a query that was never
\* used.
InitAnc ==
    /\ alive = AncEntities
    /\ childOf \in AncForests
    /\ hasT \in SUBSET AncEntities
    /\ cache = [e \in AncEntities |-> 0]
    /\ got = NoLookup
    /\ currentAction = [a \in Agents |-> IdleAction]
    /\ picker = [a \in Agents |-> [idle |-> IdleAction, picked |-> IdleAction]]
    /\ trace = << >>
    /\ lastOp = NoOp
    /\ PickIdle
    /\ TravIdle
    /\ ScoreIdle

\* The entities the lookups start from: the cache is keyed by the start
\* entity and a lookup touches the entry of its own start only.
LookupStarts == {1, 2}

NextAnc ==
    \/ \E start \in LookupStarts : AncestorQuery_get(start)
    \/ \E start \in LookupStarts : AncestorQuery_get_mut(start)
    \/ AncestorQuery_clear_cache
    \/ \E entity \in AncEntities, parent \in {0} \cup AncEntities : SetParent(entity, parent)
    \/ \E entity \in AncEntities : InsertT(entity)
    \/ \E entity \in AncEntities : RemoveT(entity)
    \/ \E entity \in AncEntities : Despawn(entity)

SpecAnc == InitAnc /\ [][NextAnc]_vars

----------------------------------------------------------------------------
\* Properties of scoring.

\* the entities a pass for the target goes over
Covered(target) ==
    IF target = 0 THEN UNION {Subtree(r) : r \in ScoringRoots} ELSE Subtree(target)

\* C9: in a scoring pass OnScore reaches an entity only after all its
\* descendants, and after the pass every combinator node that was scored holds
\* the value of its formula over the scores its direct children have now.
C9_ChildrenScoredFirst ==
    lastTarget # -1 =>
        /\ \A j \in 1..Len(notified) :
              \A d \in Descendants(notified[j]) : \E i \in 1..(j - 1) : notified[i] = d
        /\ \A e \in Covered(lastTarget) :
              comps[e].parts # {} => score[e] = OnScore(e, score)[e]

\* a Sum on top of three levels of combinators was scored from the top and
\* holds what its FixedScore descendant passed up
C9_Witness ==
    /\ lastTarget > 0
    /\ Height(lastTarget) >= 2
    /\ Has(lastTarget, "Sum")
    /\ score[lastTarget] = Rat(7, 10)
    /\ \A e \in Subtree(lastTarget) : comps[e].parts # {}

\* C10: RunScoring::all() triggers OnScore exactly once for every entity that
\* has a Score.
C10_EveryScorerOnce ==
    lastTarget = 0 =>
        \A e \in DOMAIN comps :
            comps[e].hasScore => Cardinality({i \in 1..Len(notified) : notified[i] = e}) = 1

\* RunScoring::all() over a scorer with a scoring child under an actor
\* without Score, or next to a parentless scorer
C10_Witness ==
    /\ lastTarget = 0
    /\ \E a, b, c \in DOMAIN comps :
          /\ ~comps[a].hasScore /\ comps[b].hasScore /\ comps[c].hasScore
          /\ b \in ChildSet(a) /\ c \in ChildSet(b)
    /\ Len(notified) >= 2

----------------------------------------------------------------------------
\* Properties of the combinators.

\* the direct children of an entity that have a Score
ScoredChildren(e) == {c \in ChildSet(e) : comps[c].hasScore}

\* sum, product and maximum of the scores of a set of entities
RECURSIVE TotalOf(_)
TotalOf(S) ==
    IF S = {} THEN Zero
    ELSE LET c == CHOOSE x \in S : TRUE IN Plus(score[c], TotalOf(S \ {c}))

RECURSIVE TimesOf(_)
TimesOf(S) ==
    IF S = {} THEN One
    ELSE LET c == CHOOSE x \in S : TRUE IN Times(score[c], TimesOf(S \ {c}))

\* the score of an entity of S that none of S exceeds, 0 if none is above 0
HighestOf(S) ==
    IF \E c \in S : Less(Zero, score[c])
    THEN score[CHOOSE c \in S : \A d \in S : ~Less(score[c], score[d])]
    ELSE Zero

\* OnScore was triggered for e, a scorer with children whose only combinator
\* is of the given kind
ScoredAs(e, kind) ==
    /\ triggered = e
    /\ comps[e].hasScore
    /\ Has(e, kind)
    /\ Cardinality(comps[e].parts) = 1
    /\ HasChildren(e)

\* the children of e, in order, have exactly these scores
ChildrenScore(e, xs) ==
    /\ Len(children[e]) = Len(xs)
    /\ \A i \in 1..Len(xs) : comps[children[e][i]].hasScore /\ score[children[e][i]] = xs[i]

\* C12: after OnScore a Sum entity holds the sum of the scores of its direct
\* children, or 0 exactly when that sum is strictly below the threshold (a sum
\* equal to the threshold is kept); threshold 0.1 over 0.3 and 0.4 gives 0.7.
C12_SumOfChildren ==
    \A e \in DOMAIN comps :
        ScoredAs(e, "Sum") =>
            LET total == TotalOf(ScoredChildren(e))
                threshold == Get(e, "Sum").threshold
            IN  /\ Less(total, threshold) => score[e] = Zero
                /\ ~Less(total, threshold) => score[e] = total

\* Sum(0.1) was scored over children with the scores 0.3 and 0.4
C12_Witness ==
    \E e \in DOMAIN comps :
        /\ ScoredAs(e, "Sum")
        /\ Get(e, "Sum").threshold = Rat(1, 10)
        /\ ChildrenScore(e, <<Rat(3, 10), Rat(4, 10)>>)
        /\ score[e] = Rat(7, 10)

\* C13: after OnScore a Product entity holds the product p of its children's
\* scores, with compensation and n >= 1 children p + (1 - p) * (1 - 1/n) * p;
\* the threshold is compared after the compensation and the score is 0
\* exactly when the value is strictly below it; threshold 0.1 without
\* compensation over 0.7 and 0.3 gives 0.21.
C13_ProductOfChildren ==
    \A e \in DOMAIN comps :
        ScoredAs(e, "Product") =>
            LET p == TimesOf(ScoredChildren(e))
                n == Cardinality(ScoredChildren(e))
                settings == Get(e, "Product")
                value == IF settings.use_compensation /\ n >= 1
                         THEN Plus(p, Times(Times(Minus(One, p), Minus(One, Rat(1, n))), p))
                         ELSE p
            IN  /\ Less(value, settings.threshold) => score[e] = Zero
                /\ ~Less(value, settings.threshold) => score[e] = value

\* Product(0.1) with compensation was scored over two children with the
\* score 0.3: the product 0.09 is below the threshold, the compensated value
\* is not
C13_Witness ==
    \E e \in DOMAIN comps :
        /\ ScoredAs(e, "Product")
        /\ Get(e, "Product").use_compensation
        /\ ChildrenScore(e, <<Rat(3, 10), Rat(3, 10)>>)
        /\ score[e] = Rat(2619, 20000)

\* OnScore was triggered for e, whose only combinator is a Product
ProductScored(e) ==
    /\ triggered = e
    /\ comps[e].hasScore
    /\ Has(e, "Product")
    /\ Cardinality(comps[e].parts) = 1

\* the empty product, cut by the threshold
EmptyProduct(e) ==
    IF Less(One, Get(e, "Product").threshold) THEN Zero ELSE One

\* C14 as stated: after OnScore a Product entity that has no children holds 1,
\* or 0 if 1 is below the threshold.
C14_ChildlessProductIsOne ==
    \A e \in DOMAIN comps :
        ProductScored(e) /\ ChildSet(e) = {} => score[e] = EmptyProduct(e)

\* C14, amended: after OnScore a Product entity whose children all lack a
\* Score holds 1, or 0 if 1 is below the threshold, with or without
\* compensation; a Product entity without children is not written at all.
C14_ProductWithoutScoredChildren ==
    \A e \in DOMAIN comps :
        ProductScored(e) =>
            /\ HasChildren(e) /\ ScoredChildren(e) = {} => score[e] = EmptyProduct(e)
            /\ ~HasChildren(e) => writes = << >>

\* a Product with compensation was scored over children without Score
C14_Witness ==
    \E e \in DOMAIN comps :
        /\ ProductScored(e)
        /\ Get(e, "Product").use_compensation
        /\ HasChildren(e)
        /\ ScoredChildren(e) = {}
        /\ score[e] = One
        /\ writes = <<[on |-> e, entity |-> e, by |-> "Product"]>>

\* C15: after OnScore an AllOrNothing entity holds 0 if a direct child's score
\* is strictly below the threshold and the sum of the children's scores
\* otherwise (a child at the threshold passes), in whatever order the children
\* are; threshold 0.5 over 0.7 and 0.3 gives 0.
C15_AllOrNothing ==
    \A e \in DOMAIN comps :
        ScoredAs(e, "AllOrNothing") =>
            LET threshold == Get(e, "AllOrNothing").threshold
                failing == \E c \in ScoredChildren(e) : Less(score[c], threshold)
            IN  /\ failing => score[e] = Zero
                /\ ~failing => score[e] = TotalOf(ScoredChildren(e))
                /\ \A kids \in Arrangements(ChildSet(e)) :
                      Len(kids) = Len(children[e]) =>
                          AllOrNothingValue(ChildScores(kids, score, 1), threshold) = score[e]

\* AllOrNothing(0.5) was scored over children with the scores 0.7 and 0.3, in
\* this order, and wrote 0 over another score
C15_Witness ==
    \E e \in DOMAIN comps :
        /\ ScoredAs(e, "AllOrNothing")
        /\ Get(e, "AllOrNothing").threshold = Rat(1, 2)
        /\ ChildrenScore(e, <<Rat(7, 10), Rat(3, 10)>>)
        /\ score[e] = Zero
        /\ writes = <<[on |-> e, entity |-> e, by |-> "AllOrNothing"]>>

\* C16: after OnScore a Winning entity holds the maximum of its direct
\* children's scores (0 when no child score is above 0), or 0 when that
\* maximum is strictly below the threshold: it holds 0 or the score of a child
\* that no child exceeds and that reaches the threshold; threshold 0.5 over
\* 0.7 and 0.3 gives 0.7.
C16_Winning ==
    \A e \in DOMAIN comps :
        ScoredAs(e, "Winning") =>
            LET threshold == Get(e, "Winning").threshold
                max == HighestOf(ScoredChildren(e))
            IN  /\ Less(max, threshold) => score[e] = Zero
                /\ ~Less(max, threshold) => score[e] = max
                /\ \/ score[e] = Zero
                   \/ \E c \in ScoredChildren(e) :
                         /\ score[c] = score[e]
                         /\ ~Less(score[c], threshold)
                         /\ \A d \in ScoredChildren(e) : ~Less(score[c], score[d])

\* Winning(0.5) was scored over children with the scores 0.7 and 0.3
C16_Witness ==
    \E e \in DOMAIN comps :
        /\ ScoredAs(e, "Winning")
        /\ Get(e, "Winning").threshold = Rat(1, 2)
        /\ ChildrenScore(e, <<Rat(7, 10), Rat(3, 10)>>)
        /\ score[e] = Rat(7, 10)

----------------------------------------------------------------------------
\* Properties of scoring passes.

\* the scores a RunScoring(target) would leave if it ran now
Rescored(target) == ScoreInOrder(ScoringOrder(target), World, 1).score

\* C11 as stated: after RunScoring(target), a second RunScoring(target) leaves
\* every Score as it is.
C11_Idempotent ==
    lastTarget # -1 => Rescored(lastTarget) = score

\* C11, amended: after RunScoring(target), a second RunScoring(target) leaves
\* the Score of every entity as it is, except for the entities that carry a
\* RandomScore or have one below them.
C11_IdempotentWithoutRandomScore ==
    lastTarget # -1 =>
        \A e \in DOMAIN comps :
            (\A d \in Subtree(e) : ~Has(d, "RandomScore")) =>
                Rescored(lastTarget)[e] = score[e]

\* a pass has scored a Sum over another combinator over a scorer, none of them
\* a RandomScore, and has changed the score of the Sum
C11_Witness ==
    /\ lastTarget > 0
    /\ Height(lastTarget) >= 2
    /\ Has(lastTarget, "Sum")
    /\ \A d \in Subtree(lastTarget) : ~Has(d, "RandomScore") /\ comps[d].parts # {}
    /\ score[lastTarget] = Rat(7, 10)

\* C17: after a RunScoring pass every entity it went over that has a Score
\* and FixedScore(v) as its combinator holds v, whatever it held before and
\* whatever children it has.
C17_FixedScoreSetsValue ==
    lastTarget # -1 =>
        \A e \in Covered(lastTarget) :
            comps[e].hasScore /\ Has(e, "FixedScore") /\ Cardinality(comps[e].parts) = 1
                => score[e] = Get(e, "FixedScore").value

\* RunScoring on a FixedScore(0.7) entity that has children has replaced the
\* score 0.9, which a scorer outside the pass still holds
C17_Witness ==
    /\ lastTarget > 0
    /\ Has(lastTarget, "FixedScore")
    /\ HasChildren(lastTarget)
    /\ score[lastTarget] = Rat(7, 10)
    /\ \E m \in DOMAIN comps : comps[m] = Marker /\ score[m] = Rat(9, 10)

\* C18: OnScore for an entity without combinator changes no Score: no pass
\* changes the Score of such an entity, no Score is written while OnScore is
\* handled for it, and a pass over such entities only changes no Score at all.
C18_NoCombinatorNoChange ==
    [][/\ \A e \in DOMAIN comps :
             comps[e].parts = {} =>
                 /\ score'[e] = score[e]
                 /\ \A i \in 1..Len(writes') : writes'[i].on # e
       /\ (\A i \in 1..Len(notified') : comps[notified'[i]].parts = {}) => score' = score
      ]_vars

\* RunScoring on a scorer without combinator has scored a FixedScore child
\* and has left the score 0.9 of the scorer
C18_Witness ==
    /\ lastTarget > 0
    /\ comps[lastTarget] = Marker
    /\ \E c \in ChildSet(lastTarget) : Has(c, "FixedScore") /\ score[c] = Rat(7, 10)
    /\ score[lastTarget] = Rat(9, 10)
    /\ \E i \in 1..Len(notified) : notified[i] = lastTarget

\* The positions of the last notification's writes that went to the Score of e
WritesOn(e) == {i \in 1..Len(writes) : writes[i].on = e /\ writes[i].entity = e}

\* C19 as stated: for each OnScore(entity), at most one combinator handler
\* writes the Score of the entity, whatever combinators the entity carries.
C19_AtMostOneWrite ==
    \A e \in DOMAIN comps : triggered = e => Cardinality(WritesOn(e)) <= 1

\* C19: for each OnScore(entity), only handlers of combinators the entity
\* carries write its Score, each of them at most once: at most one handler
\* writes when the entity carries at most one combinator.
C19_OneWritePerCombinator ==
    \A e \in DOMAIN comps :
        triggered = e =>
            /\ \A i \in WritesOn(e) : Has(e, writes[i].by)
            /\ \A i, j \in WritesOn(e) : writes[i].by = writes[j].by => i = j
            /\ Cardinality(WritesOn(e)) <= Cardinality(comps[e].parts)
            /\ Cardinality(comps[e].parts) <= 1 => Cardinality(WritesOn(e)) <= 1

\* OnScore on an entity with children that carries Sum and FixedScore: both
\* handlers have written its Score
C19_Witness ==
    /\ triggered = 1
    /\ Has(1, "Sum") /\ Has(1, "FixedScore")
    /\ HasChildren(1)
    /\ Cardinality(WritesOn(1)) = 2

\* scores an entity outside the children of the scored entity might have instead
OtherScores == {Zero, Rat(9, 10)}

\* C20: the handlers of OnScore(e) write the Score of e only, so the score of
\* every other entity is unchanged, and what they write does not depend on the
\* score of any entity that is not a direct child of e (e itself included).
C20_ReadsChildrenWritesOwn ==
    [][\A e \in DOMAIN comps :
           (triggered' = e /\ lastTarget' = -1) =>
               /\ \A x \in DOMAIN comps \ {e} : score'[x] = score[x]
               /\ \A i \in 1..Len(writes') : writes'[i].on = e /\ writes'[i].entity = e
               /\ Len(writes') > 0 =>
                      \A x \in DOMAIN comps \ ChildSet(e) : \A v \in OtherScores :
                          OnScore(e, [score EXCEPT ![x] = v])[e] = score'[e]
      ]_vars

\* OnScore on a Winning entity over a FixedScore child that was never scored
\* and a child with score 0.7: the entity has the 0.7, the children are as
\* they were
C20_Witness ==
    /\ triggered = 1
    /\ ScoredAs(1, "Winning")
    /\ Len(writes) = 1
    /\ \E c, d \in ChildSet(1) :
           /\ Has(c, "FixedScore") /\ score[c] = Zero
           /\ comps[d] = Marker /\ score[d] = Rat(7, 10)
    /\ score[1] = Rat(7, 10)

----------------------------------------------------------------------------
\* Properties of picking.

\* the targets of RunPicking that make the pass go over the agent
TargetsOf(agent) == {None, agent}

\* the positions of the pairs of a picker whose scorer has reached the threshold
Qualifying(pick, threshold) ==
    {i \in 1..Len(pick.scorers) : ~Less(score[pick.scorers[i].scorer], threshold)}

\* C21: a RunPicking pass over a FirstToScore(threshold) agent sets
\* Picker.picked to the action of the first pair, in insertion order, whose
\* scorer has a score >= threshold now, and to the idle action when there is
\* no such pair (none qualifies or none is configured).
C21_FirstToScore ==
    [][\A agent \in DOMAIN picker :
           (/\ strategy[agent].kind = "FirstToScore"
            /\ \E target \in TargetsOf(agent) : RunPicking(target))
           => LET pick == picker[agent]
                  Q    == Qualifying(pick, strategy[agent].threshold)
              IN  picker'[agent].picked =
                      IF Q = {} THEN pick.idle ELSE pick.scorers[MinOf(Q)].action
      ]_vars

\* FirstToScore(0.5) has passed over a pair whose scorer has 0.3 and picked
\* the action of the second pair, whose scorer has exactly 0.5
C21_Witness ==
    /\ strategy["actor"] = FirstToScore_new(Rat(1, 2))
    /\ Len(picker["actor"].scorers) >= 2
    /\ score[picker["actor"].scorers[1].scorer] = Rat(3, 10)
    /\ score[picker["actor"].scorers[2].scorer] = Rat(1, 2)
    /\ picker["actor"].scorers[1].action # picker["actor"].scorers[2].action
    /\ picker["actor"].picked = picker["actor"].scorers[2].action
    /\ \E i \in 1..Len(pickedEvents) :
           pickedEvents[i] = OnPicked("actor", picker["actor"].scorers[2].action)

\* the positions of the pairs of a picker whose scorer has the maximum score
\* and that no earlier pair ties with
EarliestMaximum(pick) ==
    {i \in 1..Len(pick.scorers) :
        /\ \A j \in 1..Len(pick.scorers) :
              ~Less(score[pick.scorers[i].scorer], score[pick.scorers[j].scorer])
        /\ \A j \in 1..(i - 1) :
              Less(score[pick.scorers[j].scorer], score[pick.scorers[i].scorer])}

\* C22: a RunPicking pass over a Highest agent sets Picker.picked to the
\* action of the pair whose scorer has the maximum score now, the earliest
\* such pair when several tie, however low that maximum is; it sets the idle
\* action only when no pair is configured.
C22_Highest ==
    [][\A agent \in DOMAIN picker :
           (/\ strategy[agent].kind = "Highest"
            /\ \E target \in TargetsOf(agent) : RunPicking(target))
           => LET pick == picker[agent]
              IN  IF pick.scorers = << >>
                  THEN picker'[agent].picked = pick.idle
                  ELSE /\ Cardinality(EarliestMaximum(pick)) = 1
                       /\ \A i \in EarliestMaximum(pick) :
                              picker'[agent].picked = pick.scorers[i].action
      ]_vars

\* Highest over two pairs whose scorers both have 0.3 has picked the action
\* of the first pair
C22_Witness ==
    /\ strategy["actor"] = Highest
    /\ Len(picker["actor"].scorers) = 2
    /\ score[picker["actor"].scorers[1].scorer] = Rat(3, 10)
    /\ score[picker["actor"].scorers[2].scorer] = Rat(3, 10)
    /\ picker["actor"].scorers[1].action # picker["actor"].scorers[2].action
    /\ picker["actor"].picked = picker["actor"].scorers[1].action
    /\ \E i \in 1..Len(pickedEvents) :
           pickedEvents[i] = OnPicked("actor", picker["actor"].scorers[1].action)

\* the action identifiers configured in the scorer-to-action mapping of a picker
ConfiguredActions(pick) == {pick.scorers[i].action : i \in 1..Len(pick.scorers)}

\* C23: in every reachable state the Picker.picked of an agent is its idle
\* action or one of the actions configured in its scorer-to-action mapping.
C23_PickedIsConfiguredOrIdle ==
    \A agent \in DOMAIN picker :
        picker[agent].picked \in {picker[agent].idle} \cup ConfiguredActions(picker[agent])

\* after scoring, picking and acting the actor runs a configured action that
\* is not the idle action, while the agent without scorers has picked idle
C23_Witness ==
    /\ lastTarget = 0
    /\ picker["actor"].picked \in ConfiguredActions(picker["actor"]) \ {IdleAction}
    /\ currentAction["actor"] = picker["actor"].picked
    /\ Len(pickedEvents) = 2
    /\ picker["other"].scorers = << >>
    /\ pickedEvents[2] = OnPicked("other", IdleAction)

\* the positions of the OnPicked events for the agent among the events
EventsFor(events, agent) == {i \in 1..Len(events) : events[i].entity = agent}

\* C24: a RunPicking pass writes the result of the strategy to the
\* Picker.picked of every targeted agent that has a strategy, whatever was
\* picked before, and emits exactly one OnPicked for it, with that agent and
\* the action just written; for any other agent it writes and emits nothing.
C24_OnePickedPerAgent ==
    [][\A target \in {None} \cup DOMAIN picker :
           RunPicking(target) =>
               \A agent \in DOMAIN picker :
                   IF target \in TargetsOf(agent) /\ strategy[agent] # NoStrategy
                   THEN /\ picker'[agent].picked = OnPick(picker[agent], strategy[agent], score)
                        /\ Cardinality(EventsFor(pickedEvents', agent)) = 1
                        /\ \A i \in EventsFor(pickedEvents', agent) :
                               pickedEvents'[i] = OnPicked(agent, picker'[agent].picked)
                   ELSE /\ picker'[agent] = picker[agent]
                        /\ EventsFor(pickedEvents', agent) = {}
      ]_vars

\* RunPicking::entity(actor) has replaced the action the actor picked earlier
\* and runs by now, and the one OnPicked carries the new one
C24_Witness ==
    /\ strategy["actor"] # NoStrategy
    /\ currentAction["actor"] # IdleAction
    /\ picker["actor"].picked \notin {IdleAction, currentAction["actor"]}
    /\ pickedEvents = <<OnPicked("actor", picker["actor"].picked)>>

\* C25: RequestAction::picked(agent) does exactly what
\* RequestAction::specific(agent, p) does for the p that Picker.picked holds
\* when the request is handled, and CurrentAction is p afterwards: after
\* scoring and picking it is the action the picking pass chose.
C25_PickedIsSpecificOfPicked ==
    [][\A agent \in DOMAIN picker :
           RequestAction(RequestAction_picked(agent)) =>
               /\ RequestAction(RequestAction_specific(agent, picker[agent].picked))
               /\ currentAction'[agent] = picker[agent].picked
               /\ \A i \in EventsFor(pickedEvents, agent) :
                      currentAction'[agent] = pickedEvents[i].action
      ]_vars

\* score, pick, act: the scorers were scored, the actor picked an action
\* that is not idle, and RequestAction::picked initiated it
C25_Witness ==
    /\ lastTarget = 0
    /\ \E action \in ActionIds \ {IdleAction} :
           /\ pickedEvents = <<OnPicked("actor", action)>>
           /\ currentAction["actor"] = action
           /\ lastOp.op = "RequestAction" /\ lastOp.entity = "actor"
           /\ lastOp.prev # action
           /\ trace[Len(trace)].ev = "OnActionInitiated"
           /\ trace[Len(trace)].action = action

----------------------------------------------------------------------------
\* Properties of the per-action components.

\* every OnActionEnded the host triggered directly so far was
\* OnActionEnded::completed for the action that was current
OnlyCompletedCurrent ==
    \A k \in DirectAt : trace[k].via = "completed" /\ trace[k].action = trace[k].cur

\* C26: with the two helper handlers registered for every action kind but
\* idle, after RequestAction events and OnActionEnded(Completed) events for
\* the current action the agent holds the component of an action kind if and
\* only if that kind is its CurrentAction.
C26_ComponentIffCurrent ==
    OnlyCompletedCurrent =>
        \A agent \in DOMAIN attached : \A A \in HelperKinds :
            A \in attached[agent] <=> currentAction[agent] = A

\* an action was completed, another was initiated and then cancelled by a
\* request for a third: only the component of the last one is attached
C26_Witness ==
    /\ OnlyCompletedCurrent
    /\ DirectAt # {}
    /\ lastOp.op = "RequestAction"
    /\ lastOp.prev = "action1"
    /\ currentAction["actor"] = "action2"
    /\ attached["actor"] = {"action2"}

----------------------------------------------------------------------------
\* Properties of the ancestor lookup.

\* The closest entity on the current parent chain of start, start included,
\* that holds T (0: there is none, or start does not exist).
ClosestHolder(start) ==
    LET chain   == ChainOf(start, childOf)
        holders == {i \in 1..Len(chain) : chain[i] \in hasT}
    IN  IF holders = {} THEN 0 ELSE chain[MinOf(holders)]

\* a lookup was made and the hierarchy is as the lookup met it
LookedUp == got.op \in {"get", "get_mut"}

\* C27: a successful lookup returns the component of the closest entity on
\* the current parent chain of start, start included, that holds T.
C27_ClosestOnCurrentChain ==
    (LookedUp /\ got.found # 0) => got.found = ClosestHolder(got.start)

\* C28: a lookup that meets a cache entry whose entity no longer holds T
\* removes the entry and returns what a fresh walk from start finds, which is
\* the new entry (no entry when the walk fails); it never returns the stale
\* entity.
C28_StaleEntryEvicted ==
    (LookedUp /\ got.was # 0 /\ ~Contains(got.was)) =>
        /\ got.found = ClosestHolder(got.start)
        /\ cache[got.start] = got.found
        /\ got.found # got.was

\* get_mut met an entry whose entity lost T and went on to the next holder
\* up the chain, which is cached now
C28_Witness ==
    /\ got.op = "get_mut"
    /\ got.was # 0 /\ got.was \in alive \ hasT
    /\ got.found # 0
    /\ got.found # got.start
    /\ cache[got.start] = got.found
    /\ \E i \in 1..Len(ChainOf(got.start, childOf)) : ChainOf(got.start, childOf)[i] = got.was

\* C29: a lookup fails when no entity on the parent chain of start holds T or
\* start does not exist, and a failed lookup leaves no cache entry for start.
C29_NotFoundLeavesNoEntry ==
    LookedUp =>
        /\ ClosestHolder(got.start) = 0 => got.found = 0
        /\ got.found = 0 => cache[got.start] = 0

----------------------------------------------------------------------------
\* Properties of the expansion in next().

\* next() returns an item and met an expanded entry and an unexpanded one
\* behind it
EmitsWithPending ==
    /\ Len(out') = Len(out) + 1
    /\ visited > 0
    /\ visited < Len(queue)

\* expansion stopped at once: the entry before the unexpanded one is removed
\* from the buffer and returned
StopsAndEmitsPending ==
    /\ out'[Len(out')] = queue[visited][2]
    /\ queue' = Remove(queue, visited - 1)
    /\ visited' = visited - 1

\* the unexpanded entry was expanded: what is returned is the entry or one of
\* its descendants
ExpandsNext ==
    /\ out'[Len(out')] \in Subtree(queue[visited + 1][2])
    /\ out'[Len(out')] # queue[visited][2]

\* C30 as stated: expansion stops when the depth of the next unexpanded entry
\* is less than or equal to the depth last consumed, and the entry is
\* expanded only when its depth is greater.
C30_StopsAtEqualDepth ==
    [][EmitsWithPending =>
           IF current_depth >= queue[visited + 1][1]
           THEN StopsAndEmitsPending ELSE ExpandsNext
      ]_vars

\* C30: expansion stops when the depth of the next unexpanded entry is less
\* than the depth last consumed; an entry of the same depth (a sibling) or of
\* a greater one (a child) is expanded.
C30_StopsBelowDepth ==
    [][EmitsWithPending =>
           IF current_depth > queue[visited + 1][1]
           THEN StopsAndEmitsPending ELSE ExpandsNext
      ]_vars

\* two children of one entity were returned one after the other, and after
\* the last child of an entity the entity itself
C30_Witness ==
    /\ Len(out) >= 3
    /\ \E p \in DOMAIN children :
           /\ Len(children[p]) = 2
           /\ out[Len(out) - 2] = children[p][1]
           /\ out[Len(out) - 1] = children[p][2]
           /\ out[Len(out)] = p
    /\ queue # << >>

----------------------------------------------------------------------------
\* Properties of the order of the traversal.

\* C31: the traversal keeps the order of siblings: for the children c1..ck of
\* an entity, in the order of its Children component, what is returned of the
\* subtree of ci is returned before anything of the subtree of cj when i < j;
\* for an entity of the traversal, that is the whole subtree of ci.
C31_SiblingOrderKept ==
    iterRoot # 0 =>
        \A p \in DOMAIN children :
            \A i, j \in 1..Len(children[p]) :
                i < j =>
                    \A b \in 1..Len(out) :
                        out[b] \in Subtree(children[p][j]) =>
                            /\ \A a \in 1..Len(out) :
                                   out[a] \in Subtree(children[p][i]) => a < b
                            /\ p \in Subtree(iterRoot) =>
                                   \A x \in Subtree(children[p][i]) :
                                       \E a \in 1..(b - 1) : out[a] = x

\* a finished traversal over an entity with two children that have children
\* of their own, listed against the order of their ids
C31_Witness ==
    /\ iterRoot # 0
    /\ nones > 0
    /\ \E p \in Subtree(iterRoot) :
           /\ Len(children[p]) = 2
           /\ children[p][1] > children[p][2]
           /\ children[children[p][1]] # << >>
           /\ children[children[p][2]] # << >>

----------------------------------------------------------------------------
\* The traversal pass by pass: one call of next() of DFSPostTraversalIter
\* (src/src/ecs.rs) as the passes of its loop, over structures of ChildOf
\* that may hold a cycle.

CycEntities == 1..CycNodes

\* The Children components of any assignment of ChildOf, cycles included: an
\* entity is the child of at most one other entity.
StructuresOf(E) ==
    { [p \in E |-> SortBy({n \in E : par[n] = p}, rank)] :
        par \in {f \in [E -> {0} \cup E] : \A n \in E : f[n] # n},
        rank \in Permutations(E) }

\* a pass that takes an entity that is in the buffer already for a leaf
LoopPass_StopsAtSeen(q, v, cd) ==
    IF v >= Len(q)
    THEN [queue |-> q, visited |-> v, current_depth |-> cd, again |-> FALSE]
    ELSE LET depth  == q[v + 1][1]
             entity == q[v + 1][2]
         IN  IF NotChildNorSibling(cd, depth)
             THEN [queue |-> q, visited |-> v, current_depth |-> cd, again |-> FALSE]
             ELSE IF ~Children_get(entity) \/ (\E k \in 1..v : q[k][2] = entity)
                  THEN [queue |-> q, visited |-> v + 1, current_depth |-> depth,
                        again |-> FALSE]
                  ELSE [queue |-> InsertChildren(q, v, depth, children[entity], 0),
                        visited |-> v + 1, current_depth |-> depth, again |-> TRUE]

\* One pass of the loop of next(): the iterator fields after it, and whether
\* the loop goes round again (no break was taken).
LoopPass(q, v, cd) ==
    IF v >= Len(q)
    THEN [queue |-> q, visited |-> v, current_depth |-> cd, again |-> FALSE]
    ELSE LET depth  == q[v + 1][1]
             entity == q[v + 1][2]
         IN  IF NotChildNorSibling(cd, depth)
             THEN [queue |-> q, visited |-> v, current_depth |-> cd, again |-> FALSE]
             ELSE IF ~Children_get(entity)
                  THEN [queue |-> q, visited |-> v + 1, current_depth |-> depth,
                        again |-> FALSE]
                  ELSE [queue |-> InsertChildren(q, v, depth, children[entity], 0),
                        visited |-> v + 1, current_depth |-> depth, again |-> TRUE]

\* DFSPostTraversal::iter(root), once: the for loop of the caller
IterOnce(root) ==
    /\ iterRoot = 0
    /\ Iter(root)

\* next() is called: it returns None on an empty buffer and enters its loop
\* otherwise
NextBegin ==
    /\ iterRoot # 0
    /\ ~inNext
    /\ nones < MaxNones
    /\ inNext' = (queue # << >>)
    /\ nones' = IF queue = << >> THEN nones + 1 ELSE nones
    /\ UNCHANGED <<children, queue, visited, current_depth, iterRoot, out, leftover,
                   filtered, lifeVars, scoreVars, pickVars, ancVars>>

\* One pass of the loop; the pass that breaks goes on to the removal and
\* returns. A pass that would grow the buffer beyond MaxQueue is not explored.
NextPass ==
    /\ inNext
    /\ \E x \in {LoopPass(queue, visited, current_depth)} :
          IF x.again
          THEN /\ Len(x.queue) <= MaxQueue
               /\ queue' = x.queue
               /\ visited' = x.visited
               /\ current_depth' = x.current_depth
               /\ UNCHANGED <<out, nones, inNext>>
          ELSE \E e \in {Emit(x.queue, x.visited)} :
               /\ queue' = IF e.item = 0 THEN x.queue ELSE e.queue
               /\ visited' = IF e.item = 0 THEN x.visited ELSE e.visited
               /\ current_depth' = IF e.item = 0 THEN x.current_depth ELSE e.current_depth
               /\ out' = IF e.item = 0 THEN out ELSE Append(out, e.item)
               /\ nones' = IF e.item = 0 THEN nones + 1 ELSE nones
               /\ inNext' = FALSE
    /\ UNCHANGED <<children, iterRoot, leftover, filtered, lifeVars, scoreVars, pickVars, ancVars>>

InitCycle ==
    /\ children \in StructuresOf(CycEntities)
    /\ NoTraversal
    /\ LifeIdle
    /\ ScoreIdle

NextCycle ==
    \/ \E root \in CycEntities : IterOnce(root)
    \/ NextBegin
    \/ NextPass

\* The caller consumes the iterator: it keeps calling next(), and a call that
\* can take a step takes it.
SpecCycle ==
    InitCycle /\ [][NextCycle]_vars /\ WF_vars(NextBegin) /\ WF_vars(NextPass)

----------------------------------------------------------------------------
\* Properties of the traversal of a structure with a cycle.

\* what is reached from the entities of S over the Children components
RECURSIVE ReachableFrom(_, _)
ReachableFrom(S, k) ==
    IF k = 0 THEN S
    ELSE ReachableFrom(S \cup UNION {ChildSet(e) : e \in S}, k - 1)

Below(e) == ReachableFrom(ChildSet(e), CycNodes)

\* the structure reachable from the entity holds a cycle
HasCycle(e) == \E x \in {e} \cup Below(e) : x \in Below(x)

\* the leaf at the end of the chain of first children (0: the chain comes
\* back on itself)
RECURSIVE FirstLeaf(_, _)
FirstLeaf(e, k) ==
    IF k = 0 THEN 0
    ELSE IF children[e] = << >> THEN e
    ELSE FirstLeaf(children[e][1], k - 1)

\* the buffer has outgrown what is explored: the pass that is due makes it
\* longer than MaxQueue
Outgrown ==
    /\ inNext
    /\ LoopPass(queue, visited, current_depth).again
    /\ Len(LoopPass(queue, visited, current_depth).queue) > MaxQueue

\* C32 as stated: over a structure with a cycle the first call of next()
\* never returns, so that nothing is ever returned.
C32_FirstCallNeverReturns ==
    (iterRoot # 0 /\ HasCycle(iterRoot)) => (out = << >> /\ nones = 0)

\* what was returned so far when a cycle is reachable from the root: never
\* None, only entities that reach no cycle (so never the root), and nothing at
\* all when the first children from the root lead back onto the cycle
ReturnedOverCycle ==
    (iterRoot # 0 /\ HasCycle(iterRoot)) =>
        /\ nones = 0
        /\ \A i \in 1..Len(out) : ~HasCycle(out[i])
        /\ FirstLeaf(iterRoot, CycNodes + 1) = 0 => out = << >>

\* C32: over a structure with a cycle the traversal does not end and its
\* buffer grows beyond every bound: next() never returns None and never an
\* entity that reaches the cycle, the root among them. Calls of next() do
\* return the entities before the cycle; it is the first call that never
\* returns, and nothing is returned, when the first children from the root
\* lead onto the cycle.
C32_NeverEndsBufferGrows ==
    /\ []ReturnedOverCycle
    /\ (iterRoot # 0 /\ HasCycle(iterRoot)) ~> []Outgrown

\* the first child of the root, a leaf, was returned by two calls of next()
\* that met it once before the cycle and once more behind it
C32_Witness ==
    /\ iterRoot # 0
    /\ HasCycle(iterRoot)
    /\ Len(out) = 2
    /\ out[1] = children[iterRoot][1]
    /\ out[2] = out[1]
    /\ Len(queue) >= CycNodes + 1

----------------------------------------------------------------------------
\* Properties of scoring and picking in one flush.

\* C33: when RunScoring and RunPicking are queued in that order and flushed
\* together, every OnScore observer of the pass has written its Score before
\* a strategy reads one: the scores afterwards are those of the pass, and the
\* action every agent with a strategy has picked is what its strategy picks
\* over them.
C33_PickingReadsScoresOfThePass ==
    [][Flush_ScoringThenPicking =>
           /\ score' = ScoreInOrder(ScoringOrder(0), World, 1).score
           /\ \A agent \in DOMAIN picker :
                  strategy[agent] # NoStrategy =>
                      /\ picker'[agent].picked = OnPick(picker[agent], strategy[agent], score')
                      /\ \E i \in 1..Len(pickedEvents') :
                             pickedEvents'[i] = OnPicked(agent, picker'[agent].picked)
      ]_vars

\* the scores of the pass made the actor pick an action that its strategy
\* does not pick over the scores from before the pass
C33_Witness ==
    /\ lastTarget = 0
    /\ notified # << >>
    /\ Len(pickedEvents) = 2
    /\ strategy["actor"] # NoStrategy
    /\ picker["actor"].picked # IdleAction
    /\ picker["actor"].picked #
           OnPick(picker["actor"], strategy["actor"], [e \in DOMAIN score |-> Zero])
    /\ trace = << >>

----------------------------------------------------------------------------
\* Properties of requests that are flushed together.

\* C34: two RequestAction events for one agent that are queued back to back,
\* for a and then b while c is current, with c, a and b pairwise different,
\* dispatch exactly Ended(c, Cancelled), Initiated(a), Ended(a, Cancelled),
\* Initiated(b): the second request finds the CurrentAction the first wrote.
C34_BackToBackRequests ==
    [][\A e \in DOMAIN currentAction, a, b \in ActionIds :
           LET c == currentAction[e]
           IN  (/\ Flush_Requests(<<RequestAction_specific(e, a), RequestAction_specific(e, b)>>)
                /\ c # a /\ a # b /\ c # b) =>
                   /\ trace' = trace \o
                          << Dispatched(OnActionEnded_cancelled(e, c), "lifecycle", c, c),
                             Dispatched(OnActionInitiated(e, a), "lifecycle", a, a),
                             Dispatched(OnActionEnded_cancelled(e, a), "lifecycle", a, a),
                             Dispatched(OnActionInitiated(e, b), "lifecycle", b, b) >>
                   /\ currentAction'[e] = b
      ]_vars

\* a running action was replaced twice within one flush
C34_Witness ==
    /\ lastOp.op = "Flush"
    /\ lastOp.prev # IdleAction
    /\ Len(trace) = lastOp.plen + 4
    /\ trace[lastOp.plen + 1].action = lastOp.prev
    /\ trace[lastOp.plen + 2].action \notin {lastOp.prev, lastOp.action}
    /\ trace[lastOp.plen + 3].action = trace[lastOp.plen + 2].action
    /\ trace[lastOp.plen + 4].action = lastOp.action
    /\ currentAction[lastOp.entity] = lastOp.action

----------------------------------------------------------------------------
\* Several agents: two actors, each with a marker scorer of its own and one
\* action for it (test_multiple_actors of tests/integration_tests.rs); the
\* second picks by Highest, so that both come to act.

\* the scorer of each agent, Score::new(0.8) and Score::new(0.2), and the
\* action registered for it
AgentScorer == [actor |-> 1, other |-> 2]
AgentScore == <<Rat(8, 10), Rat(2, 10)>>
AgentAction == [actor |-> "action1", other |-> "action2"]

InitAgents ==
    /\ children = [e \in 1..2 |-> << >>]
    /\ comps = [e \in 1..2 |-> Marker]
    /\ score = AgentScore
    /\ rng = [e \in 1..2 |-> 0]
    /\ observers = ObserverKinds
    /\ NotScored
    /\ AllSpawned
    /\ NoTraversal
    /\ picker = [a \in Range(PickAgents) |->
                    Picker_with(Picker_new(IdleAction), AgentScorer[a], AgentAction[a])]
    /\ strategy = [a \in Range(PickAgents) |->
                      IF a = "actor" THEN FirstToScore_new(Rat(1, 2)) ELSE Highest]
    /\ currentAction = [a \in Range(PickAgents) |-> IdleAction]
    /\ trace = << >>
    /\ lastOp = NoOp
    /\ pickedEvents = << >>
    /\ attached = [a \in Range(PickAgents) |-> {}]
    /\ AncIdle

\* The host picks and acts for either agent, one at a time or with the
\* requests for both in one flush; the actions end.
NextAgents ==
    \/ \E agent \in Range(PickAgents) : RunPicking(agent)
    \/ RunPicking(None)
    \/ \E agent \in Range(PickAgents) : RequestAction(RequestAction_picked(agent))
    \/ \E agent \in Range(PickAgents), via \in {"completed", "cancelled"} :
          TriggerOnActionEnded(agent, AgentAction[agent], via)
    \/ \E x, y \in Range(PickAgents) :
          x # y /\ Flush_Requests(<<RequestAction_picked(x), RequestAction_picked(y)>>)

SpecAgents == InitAgents /\ [][NextAgents]_vars

----------------------------------------------------------------------------
\* Properties of several agents.

\* the events a step dispatched
NewEvents == SubSeq(trace', Len(trace) + 1, Len(trace'))

\* the events of the sequence that are about the agent
RECURSIVE EventsOf(_, _)
EventsOf(events, agent) ==
    IF events = << >> THEN << >>
    ELSE (IF events[1].entity = agent THEN <<events[1]>> ELSE << >>)
             \o EventsOf(Tail(events), agent)

\* the step is the handling of an event for the agent alone
HandledFor(agent) ==
    \/ RunPicking(agent)
    \/ RequestAction(RequestAction_picked(agent))
    \/ \E via \in {"completed", "cancelled"} :
          TriggerOnActionEnded(agent, AgentAction[agent], via)

\* the step left the state of the agent alone and dispatched nothing about
\* it (pickedEvents holds the events of a picking pass until the next one)
Untouched(agent) ==
    /\ picker'[agent] = picker[agent]
    /\ currentAction'[agent] = currentAction[agent]
    /\ attached'[agent] = attached[agent]
    /\ EventsOf(NewEvents, agent) = << >>
    /\ \/ UNCHANGED pickedEvents
       \/ \A i \in 1..Len(pickedEvents') : pickedEvents'[i].entity # agent

\* the step did for the agent what its own request does when it is handled
\* alone
AsAlone(agent) ==
    LET alone == HandleRequestAction(LifeWorld, RequestAction_picked(agent))
    IN  /\ picker'[agent] = picker[agent]
        /\ currentAction'[agent] = alone.currentAction[agent]
        /\ attached'[agent] = alone.attached[agent]
        /\ EventsOf(NewEvents, agent) = SubSeq(alone.trace, Len(trace) + 1, Len(alone.trace))

\* C35: the state of picking and of the lifecycle is per agent: a RunPicking,
\* RequestAction or OnActionEnded handled for one agent leaves Picker.picked,
\* CurrentAction and the per-action components of every other agent as they
\* were and dispatches no event about it; when the requests of several agents
\* are flushed together, every agent gets what its own request gives it.
C35_StatePerAgent ==
    [][/\ \A x \in DOMAIN picker :
              HandledFor(x) => \A y \in DOMAIN picker \ {x} : Untouched(y)
       /\ \A x, y \in DOMAIN picker :
              (x # y /\ Flush_Requests(<<RequestAction_picked(x), RequestAction_picked(y)>>))
                  => (AsAlone(x) /\ AsAlone(y))
      ]_vars

\* both agents run the action they picked, started by one flush of the
\* requests of both, and hold the component of their own action only
C35_Witness ==
    /\ lastOp.op = "Flush"
    /\ Len(trace) = lastOp.plen + 4
    /\ \A a \in DOMAIN picker :
           /\ currentAction[a] = AgentAction[a]
           /\ attached[a] = {AgentAction[a]}

----------------------------------------------------------------------------
\* Registration of the observers: the on_add hook of every combinator queues
\* a Once command (src/src/ecs.rs, src/src/scoring/*.rs).

OnceEntities == 1..OnceNodes

\* the combinators that are added in this part of the model
OnceParts == {FixedScore_new(Rat(7, 10)), Sum_new(Zero)}

\* a command that runs whether or not the resource is there
Once_apply_NoResourceCheck(w, kind) ==
    [resources |-> w.resources \cup {kind},
     observers |-> Append(w.observers, kind)]

\* Once::<R, _>::apply with the command of OnceCommands::observe, in a world
\* w of resources and observers: nothing when R is in the world; otherwise R
\* is inserted and the command adds the observer.
Once_apply(w, kind) ==
    IF kind \in w.resources
    THEN w
    ELSE [resources |-> w.resources \cup {kind},
          observers |-> Append(w.observers, kind)]

\* A combinator component is added to an entity that has none of its kind:
\* the on_add hook queues  world.once::<..ObserverSpawned>().observe(..). The
\* record of the last OnScore (history) starts anew.
InsertCombinator(entity, part) ==
    /\ ~Has(entity, part.kind)
    /\ comps' = [comps EXCEPT ![entity].parts = @ \cup {part}]
    /\ queued' = Append(queued, part.kind)
    /\ notified' = << >> /\ lastTarget' = -1 /\ writes' = << >> /\ triggered' = 0
    /\ UNCHANGED <<score, rng, observers, resources, lifeVars, travVars, pickVars, ancVars>>

\* One of the queued Once commands is applied.
ApplyOnce(i) ==
    /\ i \in 1..Len(queued)
    /\ \E w \in {Once_apply([resources |-> resources, observers |-> observers], queued[i])} :
          /\ resources' = w.resources
          /\ observers' = w.observers
    /\ queued' = Remove(queued, i - 1)
    /\ notified' = << >> /\ lastTarget' = -1 /\ writes' = << >> /\ triggered' = 0
    /\ UNCHANGED <<comps, score, rng, lifeVars, travVars, pickVars, ancVars>>

\* Entity 1 with all the others as its children, every entity with a Score
\* of 3/10 and no combinator; no combinator was ever added, so that no
\* observer is spawned.
InitOnce ==
    /\ children = [e \in OnceEntities |->
                      IF e = 1 THEN [i \in 1..(OnceNodes - 1) |-> i + 1] ELSE << >>]
    /\ comps = [e \in OnceEntities |-> Marker]
    /\ score = [e \in OnceEntities |-> Rat(3, 10)]
    /\ rng = [e \in OnceEntities |-> 0]
    /\ observers = << >>
    /\ resources = {}
    /\ queued = << >>
    /\ NotScored
    /\ NoTraversal
    /\ LifeIdle

\* Combinators are added, the queued commands are applied in any order, and
\* OnScore is triggered once the queue is flushed.
NextOnce ==
    \/ \E entity \in OnceEntities, part \in OnceParts : InsertCombinator(entity, part)
    \/ \E i \in 1..(2 * OnceNodes) : ApplyOnce(i)
    \/ \E entity \in OnceEntities : queued = << >> /\ TriggerOnScore(entity)

SpecOnce == InitOnce /\ [][NextOnce]_vars

----------------------------------------------------------------------------
\* Properties of the registration of the observers.

\* how often the kind occurs among the observers
Registered_times(kind) == Cardinality({k \in 1..Len(observers) : observers[k] = kind})

\* the resource of a kind is in the world exactly when its command has run,
\* which it has done once and no more; a kind whose component was added and
\* whose commands are all applied has its observer
RunOnce ==
    /\ \A kind \in Range(ObserverKinds) :
           Registered_times(kind) = IF kind \in resources THEN 1 ELSE 0
    /\ \A e \in DOMAIN comps : \A p \in comps[e].parts :
           p.kind \in resources \/ \E i \in 1..Len(queued) : queued[i] = p.kind

\* applying a Once command leaves R in the world and runs the wrapped command
\* exactly when R was absent
AppliedOnce ==
    \A i \in 1..Len(queued) :
        ApplyOnce(i) =>
            /\ queued[i] \in resources'
            /\ observers' = IF queued[i] \in resources THEN observers
                            ELSE Append(observers, queued[i])

\* C36 as stated: the wrapped command of the Once commands of a resource runs
\* once, so that every observer is registered once and every OnScore causes
\* exactly one write of the Score of an entity with a combinator.
C36_ExactlyOneWrite ==
    /\ RunOnce
    /\ \A e \in DOMAIN comps :
           (triggered = e /\ comps[e].parts # {}) => Cardinality(WritesOn(e)) = 1

\* C36: however many Once commands of a resource are queued and in whatever
\* order they are applied, the wrapped command runs on the first application,
\* while the resource is absent, and never again, and the resource is in the
\* world after any application: every observer is registered once. An OnScore
\* then runs every observer once: each combinator of the entity writes its
\* Score once at most, FixedScore exactly once, and Sum not at all on an
\* entity without children.
C36_RegisteredOnce ==
    /\ []RunOnce
    /\ [][AppliedOnce]_vars
    /\ [](\A e \in DOMAIN comps :
             triggered = e =>
                 /\ \A i \in WritesOn(e) : Has(e, writes[i].by)
                 /\ \A i, j \in WritesOn(e) : writes[i].by = writes[j].by => i = j
                 /\ Has(e, "FixedScore") =>
                        Cardinality({i \in WritesOn(e) : writes[i].by = "FixedScore"}) = 1
                 /\ (Has(e, "Sum") /\ ~HasChildren(e)) =>
                        {i \in WritesOn(e) : writes[i].by = "Sum"} = {})

\* FixedScore was added to every entity, the commands were applied, and the
\* OnScore of the last entity wrote its Score once
C36_Witness ==
    /\ \A e \in DOMAIN comps : Has(e, "FixedScore")
    /\ queued = << >>
    /\ observers = <<"FixedScore">>
    /\ triggered = OnceNodes
    /\ Cardinality(WritesOn(OnceNodes)) = 1

----------------------------------------------------------------------------
\* A combinator that loses its children: entity 1 with a combinator over the
\* scores of its children, which the host takes away one by one.

\* the combinators over children that are looked at
ChildlessKinds == {"Sum", "AllOrNothing", "Winning"}

OverChildren ==
    { Scorer(Sum_new(Zero)), Scorer(AllOrNothing_new(Rat(3, 10))),
      Scorer(Winning_new(Rat(3, 10))) }

\* The host removes the last child of the entity (despawn, or remove ChildOf);
\* the host takes the Children component off with the last child.
RemoveChild(parent) ==
    /\ children[parent] # << >>
    /\ children' = [children EXCEPT ![parent] = SubSeq(@, 1, Len(@) - 1)]
    /\ notified' = << >> /\ lastTarget' = -1 /\ writes' = << >> /\ triggered' = 0
    /\ UNCHANGED <<comps, score, rng, observers, resources, queued, queue, visited,
                   current_depth, iterRoot, out, nones, leftover, inNext, filtered, lifeVars,
                   pickVars, ancVars>>

InitChildless ==
    /\ children = [e \in ScoredEntities |->
                      IF e = 1 THEN [i \in 1..(ScoreNodes - 1) |-> i + 1] ELSE << >>]
    /\ comps \in [ScoredEntities -> OverChildren \cup {Marker}]
    /\ comps[1] \in OverChildren
    /\ \A e \in ScoredEntities \ {1} : comps[e] = Marker
    /\ score \in [ScoredEntities -> {Zero, Rat(3, 10), Rat(7, 10)}]
    /\ score[1] = Zero
    /\ rng = [e \in ScoredEntities |-> 0]
    /\ observers = ObserverKinds
    /\ NotScored
    /\ AllSpawned
    /\ NoTraversal
    /\ LifeIdle

NextChildless ==
    \/ TriggerOnScore(1)
    \/ RunScoring(1)
    \/ RunScoring(0)
    \/ RemoveChild(1)

SpecChildless == InitChildless /\ [][NextChildless]_vars

----------------------------------------------------------------------------
\* Properties of a combinator without children.

\* the step scores the entity: OnScore for it on its own, or a pass over it
Scored(e) ==
    \/ TriggerOnScore(e)
    \/ RunScoring(e)
    \/ RunScoring(0)

\* C37: OnScore for a Sum, AllOrNothing or Winning entity that has no children
\* leaves its Score as it is and does not reset it to 0: the score that was
\* computed while there were children stays through every later pass.
C37_ChildlessKeepsScore ==
    [][\A e \in DOMAIN comps :
           (/\ Scored(e)
            /\ ~HasChildren(e)
            /\ \E kind \in ChildlessKinds : Has(e, kind)) =>
               /\ score'[e] = score[e]
               /\ \A i \in 1..Len(writes') : writes'[i].entity # e
      ]_vars

\* the entity was scored after its last child was removed and still holds
\* the score it got from its children
C37_Witness ==
    /\ children[1] = << >>
    /\ \E kind \in ChildlessKinds : Has(1, kind)
    /\ score[1] # Zero
    /\ triggered = 1
    /\ writes = << >>

----------------------------------------------------------------------------
\* The traversal with a query filter: DFSPostTraversal<F> reads the children
\* through Query<&Children, F>.

FilterEntities == 1..FilterNodes

InitFilter ==
    /\ children \in ForestsOf(FilterEntities)
    /\ filtered \in SUBSET FilterEntities
    /\ queue = << >>
    /\ visited = 0
    /\ current_depth = 0
    /\ iterRoot = 0
    /\ out = << >>
    /\ nones = 0
    /\ leftover = 0
    /\ inNext = FALSE
    /\ LifeIdle
    /\ ScoreIdle

NextFilter ==
    \/ \E root \in FilterEntities : Iter(root)
    \/ NextCall

SpecFilter == InitFilter /\ [][NextFilter]_vars

----------------------------------------------------------------------------
\* Properties of the traversal with a query filter.

\* the live iterator has returned None: the traversal is over
Exhausted == iterRoot # 0 /\ nones >= 1

\* C38: the traversal yields no descendant of an entity that fails F; once
\* it is over it has yielded the root, and every child of each yielded entity
\* that satisfies F, whether the root or the child satisfies F or not.
C38_FilterCutsBelowNotAt ==
    iterRoot # 0 =>
        /\ \A f \in Subtree(iterRoot) \cap filtered :
               Descendants(f) \cap Range(out) = {}
        /\ Exhausted =>
               /\ iterRoot \in Range(out)
               /\ \A p \in Range(out) \ filtered : ChildSet(p) \subseteq Range(out)

\* a traversal that is over, whose root satisfies F and has a child that
\* fails F and has children: the child was yielded, its children were not
C38_Witness ==
    /\ Exhausted
    /\ iterRoot \notin filtered
    /\ \E c \in ChildSet(iterRoot) \cap filtered :
          /\ HasChildren(c)
          /\ c \in Range(out)
          /\ ChildSet(c) \cap Range(out) = {}

----------------------------------------------------------------------------
\* Properties of what a lookup returns and of what the cache holds.

\* the entities from start up its chain of ChildOf
Ancestry(start) == Range(ChainOf(start, childOf))

\* the lookup wrote the entry of its start entity; the hierarchy is as it was
\* during the call
Written == LookedUp /\ cache[got.start] # 0 /\ cache[got.start] # got.was

\* C39: every successful get or get_mut, from the cache or from a fresh walk,
\* returns an entity that holds T at the time of the call, and an entry
\* start -> x is written into the cache only while x holds T and is on the
\* parent chain of start.
C39_ReturnsHolderCachesAncestor ==
    /\ (LookedUp /\ got.found # 0) => Contains(got.found)
    /\ Written =>
           /\ Contains(cache[got.start])
           /\ cache[got.start] \in Ancestry(got.start)

\* a lookup served from the cache: the entry still holds T, and since it was
\* written the start entity was moved away from below it
C39_Witness ==
    /\ LookedUp
    /\ got.was # 0
    /\ got.found = got.was
    /\ Contains(got.found)
    /\ cache[got.start] = got.found
    /\ got.found \notin Ancestry(got.start)

----------------------------------------------------------------------------
\* Properties of the buffer of the traversal.

\* the first `visited` entries of the buffer are a chain from the root down,
\* each one expanded and the child of the one before it, entry k at depth k
ExpandedChain ==
    /\ visited <= Len(queue)
    /\ \A k \in 1..visited :
           /\ queue[k][1] = k - 1
           /\ HasChildren(queue[k][2])
           /\ k = 1 => queue[k][2] = iterRoot
           /\ k > 1 => queue[k][2] \in ChildSet(queue[k - 1][2])

\* what a call of next() does in this state: the removal finds visited >= 1
\* and the index visited - 1 inside the buffer, and the call returns an entity
RemovalInBounds ==
    LET x == Expand(queue, visited, current_depth)
    IN  /\ x.visited >= 1
        /\ x.visited - 1 < Len(x.queue)
        /\ NextItem(queue, visited, current_depth).item # 0

\* C40: over a forest, between the calls of next() the first `visited`
\* entries of the buffer are the chain of expanded ancestors, the entry at
\* index k having depth k; hence a call of next() with a non-empty buffer
\* reaches the removal with visited >= 1 and visited - 1 inside the buffer and
\* returns Some: None is returned over an empty buffer only.
C40_ExpandedChainNoUnderflow ==
    iterRoot # 0 =>
        /\ ExpandedChain
        /\ queue # << >> => RemovalInBounds
        /\ nones >= 1 => queue = << >>

\* in the middle of a traversal: two expanded ancestors at the front of the
\* buffer, entries yet to expand behind them, entities returned already
C40_Witness ==
    /\ iterRoot # 0
    /\ visited >= 2
    /\ Len(queue) > visited
    /\ out # << >>

============================================================================
